---------------------------- MODULE Spec2Model ----------------------------
(***************************************************************************)
(* Model of the DEFLATE/zlib decompressor of src/src/deflate.c:            *)
(* deflate_decompress and the functions it calls (bit stream reader,       *)
(* Huffman table construction, Huffman symbol reader, block decoders and   *)
(* Adler-32).  C arrays are modelled as sequences: C index i is sequence   *)
(* index i + 1.  A loop of many iterations is written as an operator that  *)
(* runs the iterations first .. last (or the next n iterations) of the     *)
(* loop from a given state of its variables, the first half before the     *)
(* second half, which keeps the depth of the evaluation logarithmic.  A    *)
(* function that reads from the bit stream several times is written as one *)
(* operator per part, each part taking what the part before it read.       *)
(***************************************************************************)
EXTENDS Integers, Sequences, FiniteSets, TLC

(***************************************************************************)
(* 32-bit unsigned arithmetic.  A uint32_t is kept as its two 16-bit       *)
(* halves, so that no intermediate value leaves the range of TLC's        *)
(* integers.                                                               *)
(***************************************************************************)
Pow2(n) == 2 ^ n

\* The uint32_t with the given halves
U32(hi, lo) == [hi |-> hi, lo |-> lo]

\* The uint32_t of a number below 2^31
ToU32(x) == [hi |-> x \div 65536, lo |-> x % 65536]

\* The number of a uint32_t below 2^31
ToInt(w) == w.hi * 65536 + w.lo

RECURSIVE BitOr(_, _)
\* a | b on numbers
BitOr(a, b) ==
    IF a = 0 THEN b
    ELSE IF b = 0 THEN a
    ELSE (IF (a % 2 = 1) \/ (b % 2 = 1) THEN 1 ELSE 0)
         + 2 * BitOr(a \div 2, b \div 2)

RECURSIVE BitXor(_, _)
\* a ^ b on numbers
BitXor(a, b) ==
    IF a = 0 THEN b
    ELSE IF b = 0 THEN a
    ELSE (IF (a % 2) # (b % 2) THEN 1 ELSE 0)
         + 2 * BitXor(a \div 2, b \div 2)

\* a | b
Or32(a, b) == [hi |-> BitOr(a.hi, b.hi), lo |-> BitOr(a.lo, b.lo)]

\* a ^ b
Xor32(a, b) == [hi |-> BitXor(a.hi, b.hi), lo |-> BitXor(a.lo, b.lo)]

\* w << n: the bits shifted beyond bit 31 are lost
Shl32(w, n) ==
    IF n >= 32 THEN U32(0, 0)
    ELSE IF n >= 16
    THEN [hi |-> (w.lo % Pow2(32 - n)) * Pow2(n - 16), lo |-> 0]
    ELSE [hi |-> (w.hi % Pow2(16 - n)) * Pow2(n) + (w.lo \div Pow2(16 - n)),
          lo |-> (w.lo % Pow2(16 - n)) * Pow2(n)]

\* w >> n
Shr32(w, n) ==
    IF n >= 32 THEN U32(0, 0)
    ELSE IF n >= 16
    THEN [hi |-> 0, lo |-> w.hi \div Pow2(n - 16)]
    ELSE [hi |-> w.hi \div Pow2(n),
          lo |-> (w.hi % Pow2(n)) * Pow2(16 - n) + (w.lo \div Pow2(n))]

\* w & ~( 0xffffffffUL << n ): the low n bits of w, n < 32
LowBits32(w, n) ==
    IF n >= 16 THEN [hi |-> w.hi % Pow2(n - 16), lo |-> w.lo]
    ELSE [hi |-> 0, lo |-> w.lo % Pow2(n)]

\* a + b modulo 2^32
Add32(a, b) ==
    [hi |-> (a.hi + b.hi + ((a.lo + b.lo) \div 65536)) % 65536,
     lo |-> (a.lo + b.lo) % 65536]

\* byte_stream_copy_to_uint32_big_endian( &data[ offset ], value )
Uint32BigEndian(data, offset) ==
    [hi |-> data[offset + 1] * 256 + data[offset + 2],
     lo |-> data[offset + 3] * 256 + data[offset + 4]]

(***************************************************************************)
(* deflate_bit_stream_get_value                                            *)
(***************************************************************************)
RECURSIVE BitStreamRefillToEnd(_, _, _)
\* The refill loop when the byte stream ends where the input ends
BitStreamRefillToEnd(data, bs, number_of_bits) ==
    IF bs.bit_buffer_size >= number_of_bits
    THEN [ok |-> TRUE, bs |-> bs]
    ELSE IF bs.byte_stream_offset >= Len(data)
    THEN [ok |-> FALSE, bs |-> bs]
    ELSE BitStreamRefillToEnd(data,
           [bs EXCEPT
              !.bit_buffer = Or32(@, Shl32(ToU32(data[bs.byte_stream_offset + 1]),
                                           bs.bit_buffer_size)),
              !.bit_buffer_size = @ + 8,
              !.byte_stream_offset = @ + 1],
           number_of_bits)

RECURSIVE BitStreamRefill(_, _, _)
\* The refill loop: returns the bit stream after the loop and whether the
\* byte stream ran out before number_of_bits bits were buffered
BitStreamRefill(data, bs, number_of_bits) ==
    IF bs.bit_buffer_size >= number_of_bits
    THEN [ok |-> TRUE, bs |-> bs]
    ELSE IF bs.byte_stream_offset >= bs.byte_stream_size
    THEN [ok |-> FALSE, bs |-> bs]
    ELSE BitStreamRefill(data,
           [bs EXCEPT
              !.bit_buffer = Or32(@, Shl32(ToU32(data[bs.byte_stream_offset + 1]),
                                           bs.bit_buffer_size)),
              !.bit_buffer_size = @ + 8,
              !.byte_stream_offset = @ + 1],
           number_of_bits)

\* The part after the refill loop when the bits that are returned stay in
\* the bit buffer
BitStreamKeepValue(refill, number_of_bits) ==
    IF ~refill.ok
    THEN [ok |-> FALSE, value |-> U32(0, 0), bs |-> refill.bs]
    ELSE [ok    |-> TRUE,
          value |-> LowBits32(refill.bs.bit_buffer, number_of_bits),
          bs    |-> [refill.bs EXCEPT !.bit_buffer_size = @ - number_of_bits]]

\* The part of deflate_bit_stream_get_value after the refill loop, whose
\* outcome is refill = [ok, bs]
BitStreamTakeValue(refill, number_of_bits) ==
    IF ~refill.ok
    THEN [ok |-> FALSE, value |-> U32(0, 0), bs |-> refill.bs]
    ELSE IF number_of_bits < 32
    THEN [ok    |-> TRUE,
          value |-> LowBits32(refill.bs.bit_buffer, number_of_bits),
          bs    |-> [refill.bs EXCEPT
                       !.bit_buffer = Shr32(@, number_of_bits),
                       !.bit_buffer_size = @ - number_of_bits]]
    ELSE [ok    |-> TRUE,
          value |-> refill.bs.bit_buffer,
          bs    |-> [refill.bs EXCEPT !.bit_buffer = U32(0, 0),
                                      !.bit_buffer_size = 0]]

\* Returns [ok, value, bs]: ok = FALSE models return( -1 ), value is the
\* uint32_t stored in *value_32bit
deflate_bit_stream_get_value(data, bs, number_of_bits) ==
    IF number_of_bits > 32
    THEN [ok |-> FALSE, value |-> U32(0, 0), bs |-> bs]
    ELSE IF number_of_bits = 0
    THEN [ok |-> TRUE, value |-> U32(0, 0), bs |-> bs]
    ELSE BitStreamTakeValue(BitStreamRefill(data, bs, number_of_bits),
                            number_of_bits)

(***************************************************************************)
(* deflate_huffman_table_construct                                         *)
(***************************************************************************)
\* table->maximum_number_of_bits
MaximumNumberOfBits == 15

\* table->number_of_codes
NumberOfCodes == MaximumNumberOfBits + 1

\* int codes_array[ 288 ]
CodesArraySize == 288

\* The table after both memory_set calls
ClearedTable ==
    [code_counts_array |-> [i \in 0..15 |-> 0],
     codes_array       |-> [i \in 0..(CodesArraySize - 1) |-> 0]]

RECURSIVE CountCodeSizes(_, _, _, _)
\* The histogram loop for the symbols first .. last, from the state
\* [ok, counts]; ok = FALSE when a code size above table->number_of_codes
\* stopped the loop.  A code size of 16 passes that test and is counted
\* behind the end of code_counts_array[ 16 ], which leaves the counts alone
CountCodeSizes(code_sizes, state, first, last) ==
    IF ~state.ok \/ first > last
    THEN state
    ELSE IF first = last
    THEN LET code_size == code_sizes[first + 1]
         IN  IF code_size > NumberOfCodes
             THEN [state EXCEPT !.ok = FALSE]
             ELSE IF code_size \in DOMAIN state.counts
             THEN [state EXCEPT !.counts[code_size] = @ + 1]
             ELSE state
    ELSE LET middle == (first + last) \div 2
             half   == CountCodeSizes(code_sizes, state, first, middle)
         IN  IF ~half.ok THEN half
             ELSE CountCodeSizes(code_sizes, half, middle + 1, last)

RECURSIVE LeftValueCheckComplete(_, _, _)
\* The over-subscription loop together with the test for an incomplete
\* set of code sizes, which deflate_huffman_table_construct does not make
LeftValueCheckComplete(counts, bit_index, left_value) ==
    IF bit_index > MaximumNumberOfBits
    THEN left_value = 0
    ELSE LET left == 2 * left_value - counts[bit_index]
         IN  IF left < 0 THEN FALSE
             ELSE LeftValueCheckComplete(counts, bit_index + 1, left)

RECURSIVE LeftValueCheck(_, _, _)
\* The over-subscription loop: TRUE iff left_value never drops below zero
LeftValueCheck(counts, bit_index, left_value) ==
    IF bit_index > MaximumNumberOfBits
    THEN TRUE
    ELSE LET left == 2 * left_value - counts[bit_index]
         IN  IF left < 0 THEN FALSE
             ELSE LeftValueCheck(counts, bit_index + 1, left)

RECURSIVE CodeOffsetsOfCounts(_, _, _)
\* code_offsets_array computed from the counts alone, without the
\* offset of the code size before: offsets[ bit_index + 1 ] = counts[ bit_index ]
CodeOffsetsOfCounts(counts, bit_index, offsets) ==
    IF bit_index >= MaximumNumberOfBits
    THEN offsets
    ELSE CodeOffsetsOfCounts(counts, bit_index + 1,
           [offsets EXCEPT ![bit_index + 1] = counts[bit_index]])

RECURSIVE CodeOffsets(_, _, _)
\* code_offsets_array: offsets[ bit_index + 1 ] = offsets[ bit_index ] + counts[ bit_index ]
CodeOffsets(counts, bit_index, offsets) ==
    IF bit_index >= MaximumNumberOfBits
    THEN offsets
    ELSE CodeOffsets(counts, bit_index + 1,
           [offsets EXCEPT ![bit_index + 1] = offsets[bit_index] + counts[bit_index]])

RECURSIVE SortSymbols(_, _, _, _)
\* The loop that places every symbol with a non-zero code size at
\* codes_array[ code_offsets_array[ code_size ]++ ], for the symbols
\* first .. last, from the state [ok, offsets, codes].  offsets[ 16 ] is
\* what lies behind the end of code_offsets_array[ 16 ], which a code size
\* of 16 reads and writes
SortSymbols(code_sizes, state, first, last) ==
    IF ~state.ok \/ first > last
    THEN state
    ELSE IF first = last
    THEN LET code_size   == code_sizes[first + 1]
             code_offset == state.offsets[code_size]
         IN  IF code_size = 0
             THEN state
             ELSE IF code_offset < 0 \/ code_offset > Len(code_sizes)
             THEN [state EXCEPT !.ok = FALSE]
             ELSE [ok      |-> TRUE,
                   offsets |-> [state.offsets EXCEPT ![code_size] = @ + 1],
                   codes   |-> IF code_offset \in DOMAIN state.codes
                               THEN [state.codes EXCEPT ![code_offset] = first]
                               ELSE state.codes]
    ELSE LET middle == (first + last) \div 2
             half   == SortSymbols(code_sizes, state, first, middle)
         IN  IF ~half.ok THEN half
             ELSE SortSymbols(code_sizes, half, middle + 1, last)

\* The part of deflate_huffman_table_construct after the histogram loop,
\* whose outcome is counted = [ok, counts]; beyond is the value that lies
\* behind the end of code_offsets_array, which is not initialized
HuffmanTableFromCounts(code_sizes, counted, beyond) ==
    LET counts  == counted.counts
        sorted  == SortSymbols(code_sizes,
                               [ok      |-> TRUE,
                                offsets |-> CodeOffsets(counts, 1,
                                              [i \in 0..16 |-> IF i = 16 THEN beyond ELSE 0]),
                                codes   |-> ClearedTable.codes_array],
                               0, Len(code_sizes) - 1)
    IN  IF ~counted.ok
        THEN [result |-> -1, table |-> [ClearedTable EXCEPT !.code_counts_array = counts]]
        ELSE IF counts[0] = Len(code_sizes)
        THEN [result |-> 0, table |-> [ClearedTable EXCEPT !.code_counts_array = counts]]
        ELSE IF ~LeftValueCheck(counts, 1, 1)
        THEN [result |-> -1, table |-> [ClearedTable EXCEPT !.code_counts_array = counts]]
        ELSE [result |-> IF sorted.ok THEN 1 ELSE -1,
              table  |-> [code_counts_array |-> counts,
                          codes_array       |-> sorted.codes]]

\* Returns [result, table]: result is 1 on success, 0 if the table is
\* empty, -1 on error.  beyond is read only if a code size is 16
deflate_huffman_table_construct(code_sizes, beyond) ==
    HuffmanTableFromCounts(
        code_sizes,
        CountCodeSizes(code_sizes,
                       [ok |-> TRUE, counts |-> ClearedTable.code_counts_array],
                       0, Len(code_sizes) - 1),
        beyond)

(***************************************************************************)
(* deflate_bit_stream_get_huffman_encoded_value                            *)
(***************************************************************************)
RECURSIVE BitStreamPrefill(_, _)
\* Try to fill the bit buffer with the maximum number of bits
BitStreamPrefill(data, bs) ==
    IF bs.bit_buffer_size >= MaximumNumberOfBits
    THEN bs
    ELSE IF bs.byte_stream_offset >= bs.byte_stream_size
    THEN bs
    ELSE BitStreamPrefill(data,
           [bs EXCEPT
              !.bit_buffer = Or32(@, Shl32(ToU32(data[bs.byte_stream_offset + 1]),
                                           bs.bit_buffer_size)),
              !.bit_buffer_size = @ + 8,
              !.byte_stream_offset = @ + 1])

RECURSIVE HuffmanSearch(_, _, _, _, _, _, _)
\* The for loop over bit_index: returns [found, bit_index, value]
HuffmanSearch(table, bit_buffer, number_of_bits, bit_index, huffman_code, first_huffman_code, first_index) ==
    IF bit_index > number_of_bits
    THEN [found |-> FALSE, bit_index |-> bit_index, value |-> 0]
    ELSE LET code            == 2 * huffman_code + (bit_buffer.lo % 2)
             code_size_count == table.code_counts_array[bit_index]
         IN  IF (code - code_size_count) < first_huffman_code
             THEN [found     |-> TRUE,
                   bit_index |-> bit_index,
                   value     |-> table.codes_array[first_index + (code - first_huffman_code)]]
             ELSE HuffmanSearch(table, Shr32(bit_buffer, 1), number_of_bits,
                                bit_index + 1, code,
                                2 * (first_huffman_code + code_size_count),
                                first_index + code_size_count)

\* The end of the function when the bits that were looked at are taken
\* from the bit buffer whether a code was found or not
HuffmanTakeCodeAlways(filled, found) ==
    [ok    |-> found.found,
     value |-> found.value,
     bs    |-> [filled EXCEPT
                  !.bit_buffer = Shr32(@, found.bit_index - 1),
                  !.bit_buffer_size = @ - (found.bit_index - 1)]]

\* The end of the function when the bits of a code that was found are left
\* in the bit buffer
HuffmanTakeCodeUnread(filled, found) ==
    [ok |-> found.found, value |-> found.value, bs |-> filled]

\* The end of deflate_bit_stream_get_huffman_encoded_value: the bits of the
\* code that was found are taken from the bit buffer
HuffmanTakeCode(filled, found) ==
    IF found.found
    THEN [ok    |-> TRUE,
          value |-> found.value,
          bs    |-> [filled EXCEPT
                       !.bit_buffer = Shr32(@, found.bit_index),
                       !.bit_buffer_size = @ - found.bit_index]]
    ELSE [ok |-> FALSE, value |-> 0, bs |-> filled]

\* The same when a code is looked for only in a bit buffer that holds the
\* maximum number of bits
HuffmanReadCodeFullBuffer(table, filled) ==
    IF filled.bit_buffer_size < MaximumNumberOfBits
    THEN [ok |-> FALSE, value |-> 0, bs |-> filled]
    ELSE HuffmanTakeCode(filled,
                         HuffmanSearch(table, filled.bit_buffer, MaximumNumberOfBits,
                                       1, 0, 0, 0))

\* The part of deflate_bit_stream_get_huffman_encoded_value after the bit
\* buffer was filled
HuffmanReadCode(table, filled) ==
    HuffmanTakeCode(filled,
                    HuffmanSearch(table, filled.bit_buffer,
                                  IF MaximumNumberOfBits < filled.bit_buffer_size
                                  THEN MaximumNumberOfBits
                                  ELSE filled.bit_buffer_size,
                                  1, 0, 0, 0))

\* Returns [ok, value, bs]: ok = FALSE models return( -1 )
deflate_bit_stream_get_huffman_encoded_value(data, bs, table) ==
    HuffmanReadCode(table, BitStreamPrefill(data, bs))

(***************************************************************************)
(* deflate_initialize_fixed_huffman_tables                                 *)
(***************************************************************************)
\* code_size_array[ 318 ] of the fixed Huffman tables
FixedCodeSizeArray ==
    [symbol \in 1..318 |->
        IF symbol - 1 < 144 THEN 8
        ELSE IF symbol - 1 < 256 THEN 9
        ELSE IF symbol - 1 < 280 THEN 7
        ELSE IF symbol - 1 < 288 THEN 8
        ELSE 5]

\* Returns [ok, literals_table, distances_table]
deflate_initialize_fixed_huffman_tables ==
    LET literals  == deflate_huffman_table_construct(SubSeq(FixedCodeSizeArray, 1, 288), 0)
        distances == deflate_huffman_table_construct(SubSeq(FixedCodeSizeArray, 289, 318), 0)
    IN  [ok              |-> literals.result = 1 /\ distances.result = 1,
         literals_table  |-> literals.table,
         distances_table |-> distances.table]

(***************************************************************************)
(* deflate_initialize_dynamic_huffman_tables                               *)
(***************************************************************************)
\* code_sizes_sequence[ 19 ]
code_sizes_sequence ==
    <<16, 17, 18, 0, 8, 7, 9, 6, 10, 5, 11, 4, 12, 3, 13, 2, 14, 1, 15>>

RECURSIVE ReadCodeSizes(_, _, _, _, _)
\* The loop reading number_of_code_sizes 3-bit code sizes; code_size_array
\* is the sequence of the 19 code sizes of the codes table (unread ones 0,
\* as set by the while loop that follows it); returns [ok, bs, sizes]
ReadCodeSizes(data, bs, code_size_index, number_of_code_sizes, code_size_array) ==
    IF code_size_index >= number_of_code_sizes
    THEN [ok |-> TRUE, bs |-> bs, sizes |-> code_size_array]
    ELSE LET r == deflate_bit_stream_get_value(data, bs, 3)
         IN  IF ~r.ok
             THEN [ok |-> FALSE, bs |-> r.bs, sizes |-> code_size_array]
             ELSE ReadCodeSizes(data, r.bs, code_size_index + 1, number_of_code_sizes,
                    [code_size_array EXCEPT
                       ![code_sizes_sequence[code_size_index + 1] + 1] = ToInt(r.value)])

\* The loop storing code_size times_to_repeat times
Repeat(sizes, code_size, times_to_repeat) ==
    sizes \o [i \in 1..times_to_repeat |-> code_size]

\* The outcome of a failed or finished step of the loop decoding the code
\* sizes
CodeSizesState(error, bs, sizes) ==
    [ok |-> error = "", error |-> error, bs |-> bs, sizes |-> sizes]

\* The symbols 16, 17 and 18 after their extra bits were read, all three
\* of them repeating at least 3 times
RepeatCodeSizeFromThree(sizes, symbol, extra, number_of_code_sizes) ==
    LET times_to_repeat == ToInt(extra.value) + 3
        code_size       == IF symbol = 16 THEN sizes[Len(sizes)] ELSE 0
    IN  IF ~extra.ok
        THEN CodeSizesState("ARGUMENT_ERROR_VALUE_TOO_SMALL", extra.bs, sizes)
        ELSE IF Len(sizes) + times_to_repeat > number_of_code_sizes
        THEN CodeSizesState("ARGUMENT_ERROR_VALUE_OUT_OF_BOUNDS", extra.bs, sizes)
        ELSE CodeSizesState("", extra.bs, Repeat(sizes, code_size, times_to_repeat))

\* The symbols 16, 17 and 18 after their extra bits were read
RepeatCodeSize(sizes, symbol, extra, number_of_code_sizes) ==
    LET times_to_repeat == ToInt(extra.value) + (IF symbol = 18 THEN 11 ELSE 3)
        code_size       == IF symbol = 16 THEN sizes[Len(sizes)] ELSE 0
    IN  IF ~extra.ok
        THEN CodeSizesState("ARGUMENT_ERROR_VALUE_TOO_SMALL", extra.bs, sizes)
        ELSE IF Len(sizes) + times_to_repeat > number_of_code_sizes
        THEN CodeSizesState("ARGUMENT_ERROR_VALUE_OUT_OF_BOUNDS", extra.bs, sizes)
        ELSE CodeSizesState("", extra.bs, Repeat(sizes, code_size, times_to_repeat))

\* One iteration of the loop after its symbol h = [ok, value, bs] was read
StoreCodeSize(data, sizes, h, number_of_code_sizes) ==
    IF ~h.ok
    THEN CodeSizesState("RUNTIME_ERROR_VALUE_OUT_OF_BOUNDS", h.bs, sizes)
    ELSE IF h.value < 16
    THEN CodeSizesState("", h.bs, Append(sizes, h.value))
    ELSE IF h.value = 16 /\ Len(sizes) = 0
    THEN CodeSizesState("ARGUMENT_ERROR_VALUE_OUT_OF_BOUNDS", h.bs, sizes)
    ELSE IF h.value > 18
    THEN CodeSizesState("ARGUMENT_ERROR_VALUE_OUT_OF_BOUNDS", h.bs, sizes)
    ELSE RepeatCodeSize(sizes, h.value,
                        deflate_bit_stream_get_value(
                            data, h.bs,
                            IF h.value = 16 THEN 2 ELSE IF h.value = 17 THEN 3 ELSE 7),
                        number_of_code_sizes)

\* One iteration of the loop decoding the code sizes, from the state
\* [ok, error, bs, sizes] where sizes holds code_size_array[ 0 .. code_size_index )
DecodeCodeSize(data, codes_table, state, number_of_code_sizes) ==
    StoreCodeSize(data, state.sizes,
                  deflate_bit_stream_get_huffman_encoded_value(data, state.bs,
                                                               codes_table),
                  number_of_code_sizes)

RECURSIVE DecodeCodeSizes(_, _, _, _, _)
\* The next n iterations of while( code_size_index < number_of_code_sizes ),
\* fewer if the loop ends or fails before
DecodeCodeSizes(data, codes_table, state, number_of_code_sizes, n) ==
    IF ~state.ok \/ Len(state.sizes) >= number_of_code_sizes \/ n = 0
    THEN state
    ELSE IF n = 1
    THEN DecodeCodeSize(data, codes_table, state, number_of_code_sizes)
    ELSE LET half == DecodeCodeSizes(data, codes_table, state,
                                     number_of_code_sizes, n \div 2)
         IN  IF ~half.ok THEN half
             ELSE DecodeCodeSizes(data, codes_table, half,
                                  number_of_code_sizes, n - (n \div 2))

\* return( -1 ) of deflate_initialize_dynamic_huffman_tables
DynamicTablesFailed(error, bs) ==
    [ok |-> FALSE, error |-> error, bs |-> bs,
     literals_table |-> ClearedTable, distances_table |-> ClearedTable]

\* The end of the function without the check of the end-of-block code size
DynamicTablesBuildUnchecked(sizes, number_of_literal_codes, number_of_distance_codes) ==
    LET literals  == deflate_huffman_table_construct(
                        SubSeq(sizes.sizes, 1, number_of_literal_codes), 0)
        distances == deflate_huffman_table_construct(
                        SubSeq(sizes.sizes, number_of_literal_codes + 1,
                               number_of_literal_codes + number_of_distance_codes), 0)
    IN  IF ~sizes.ok
        THEN DynamicTablesFailed(sizes.error, sizes.bs)
        ELSE IF literals.result # 1 \/ distances.result # 1
        THEN DynamicTablesFailed("RUNTIME_ERROR_INITIALIZE_FAILED", sizes.bs)
        ELSE [ok |-> TRUE, error |-> "", bs |-> sizes.bs,
              literals_table  |-> literals.table,
              distances_table |-> distances.table]

\* The end of the function: the check of the end-of-block code size and the
\* construction of the literals and the distances table
DynamicTablesBuild(sizes, number_of_literal_codes, number_of_distance_codes) ==
    LET literals  == deflate_huffman_table_construct(
                        SubSeq(sizes.sizes, 1, number_of_literal_codes), 0)
        distances == deflate_huffman_table_construct(
                        SubSeq(sizes.sizes, number_of_literal_codes + 1,
                               number_of_literal_codes + number_of_distance_codes), 0)
    IN  IF ~sizes.ok
        THEN DynamicTablesFailed(sizes.error, sizes.bs)
        ELSE IF sizes.sizes[256 + 1] = 0
        THEN DynamicTablesFailed("RUNTIME_ERROR_VALUE_MISSING", sizes.bs)
        ELSE IF literals.result # 1
        THEN DynamicTablesFailed("RUNTIME_ERROR_INITIALIZE_FAILED", sizes.bs)
        ELSE IF distances.result # 1
        THEN [ok |-> FALSE, error |-> "RUNTIME_ERROR_INITIALIZE_FAILED",
              bs |-> sizes.bs,
              literals_table |-> literals.table, distances_table |-> ClearedTable]
        ELSE [ok |-> TRUE, error |-> "", bs |-> sizes.bs,
              literals_table  |-> literals.table,
              distances_table |-> distances.table]

\* DynamicTablesSizes without the test of the result of the construction of
\* the codes table
DynamicTablesSizesUnchecked(data, bs, codes, number_of_literal_codes, number_of_distance_codes) ==
    DynamicTablesBuild(
        DecodeCodeSizes(data, codes.table,
                        [ok |-> TRUE, error |-> "", bs |-> bs, sizes |-> <<>>],
                        number_of_literal_codes + number_of_distance_codes,
                        number_of_literal_codes + number_of_distance_codes),
        number_of_literal_codes, number_of_distance_codes)

\* The part after the codes table was constructed: the code sizes of the
\* literals and the distances are decoded with it
DynamicTablesSizes(data, bs, codes, number_of_literal_codes, number_of_distance_codes) ==
    IF codes.result # 1
    THEN DynamicTablesFailed("RUNTIME_ERROR_INITIALIZE_FAILED", bs)
    ELSE DynamicTablesBuild(
            DecodeCodeSizes(data, codes.table,
                            [ok |-> TRUE, error |-> "", bs |-> bs, sizes |-> <<>>],
                            number_of_literal_codes + number_of_distance_codes,
                            number_of_literal_codes + number_of_distance_codes),
            number_of_literal_codes, number_of_distance_codes)

\* The part after the 3-bit code sizes were read
DynamicTablesCodes(data, read, number_of_literal_codes, number_of_distance_codes) ==
    IF ~read.ok
    THEN DynamicTablesFailed("ARGUMENT_ERROR_VALUE_TOO_SMALL", read.bs)
    ELSE DynamicTablesSizes(data, read.bs,
                            deflate_huffman_table_construct(read.sizes, 0),
                            number_of_literal_codes, number_of_distance_codes)

\* The part after the 14 bits of the three counts were read, without the
\* checks of the number of literal codes and of distance codes
DynamicTablesCountsUnchecked(data, header) ==
    IF ~header.ok
    THEN DynamicTablesFailed("ARGUMENT_ERROR_VALUE_TOO_SMALL", header.bs)
    ELSE DynamicTablesCodes(data,
                            ReadCodeSizes(data, header.bs, 0,
                                          (ToInt(header.value) \div 1024) + 4,
                                          [i \in 1..19 |-> 0]),
                            (ToInt(header.value) % 32) + 257,
                            ((ToInt(header.value) \div 32) % 32) + 1)

\* The part after the 14 bits of the three counts were read
DynamicTablesCounts(data, header) ==
    LET number_of_literal_codes  == (ToInt(header.value) % 32) + 257
        number_of_distance_codes == ((ToInt(header.value) \div 32) % 32) + 1
        number_of_code_sizes     == (ToInt(header.value) \div 1024) + 4
    IN  IF ~header.ok
        THEN DynamicTablesFailed("ARGUMENT_ERROR_VALUE_TOO_SMALL", header.bs)
        ELSE IF number_of_literal_codes > 286
        THEN DynamicTablesFailed("RUNTIME_ERROR_VALUE_OUT_OF_BOUNDS", header.bs)
        ELSE IF number_of_distance_codes > 30
        THEN DynamicTablesFailed("RUNTIME_ERROR_VALUE_OUT_OF_BOUNDS", header.bs)
        ELSE DynamicTablesCodes(data,
                                ReadCodeSizes(data, header.bs, 0, number_of_code_sizes,
                                              [i \in 1..19 |-> 0]),
                                number_of_literal_codes, number_of_distance_codes)

\* Returns [ok, error, bs, literals_table, distances_table]
deflate_initialize_dynamic_huffman_tables(data, bs) ==
    DynamicTablesCounts(data, deflate_bit_stream_get_value(data, bs, 14))

(***************************************************************************)
(* deflate_decode_huffman                                                  *)
(***************************************************************************)
literal_codes_base ==
    <<3, 4, 5, 6, 7, 8, 9, 10, 11, 13, 15, 17, 19, 23, 27, 31,
      35, 43, 51, 59, 67, 83, 99, 115, 131, 163, 195, 227, 258>>

literal_codes_number_of_extra_bits ==
    <<0, 0, 0, 0, 0, 0, 0, 0, 1, 1, 1, 1, 2, 2, 2, 2,
      3, 3, 3, 3, 4, 4, 4, 4, 5, 5, 5, 5, 0>>

distance_codes_base ==
    <<1, 2, 3, 4, 5, 7, 9, 13, 17, 25, 33, 49, 65, 97, 129, 193,
      257, 385, 513, 769, 1025, 1537, 2049, 3073, 4097, 6145, 8193,
      12289, 16385, 24577>>

distance_codes_number_of_extra_bits ==
    <<0, 0, 0, 0, 1, 1, 2, 2, 3, 3, 4, 4, 5, 5, 6, 6,
      7, 7, 8, 8, 9, 9, 10, 10, 11, 11, 12, 12, 13, 13>>

\* uncompressed_data[ offset ] = byte; the model keeps the bytes of the
\* buffer that were written so far, so a write at the end extends it
WriteByte(buffer, offset, byte) ==
    IF offset < Len(buffer)
    THEN [buffer EXCEPT ![offset + 1] = byte]
    ELSE Append(buffer, byte)

\* A copy of the bytes as they were before the copy: the bytes from the
\* cursor on read as zero
CopyBlock(state, compression_off, n) ==
    [buffer |-> SubSeq(state.buffer, 1, state.offset)
                \o [i \in 1..state.size |->
                      IF i <= compression_off
                      THEN state.buffer[state.offset - compression_off + i]
                      ELSE 0],
     offset |-> state.offset + state.size,
     size   |-> 0]

RECURSIVE CopyBackReference(_, _, _)
\* The next n iterations of the byte-by-byte copy loop
\* while( compression_size > 0 ), from the state [buffer, offset, size]
CopyBackReference(state, compression_off, n) ==
    IF state.size = 0 \/ n = 0
    THEN state
    ELSE IF n = 1
    THEN [buffer |-> WriteByte(state.buffer, state.offset,
                               state.buffer[state.offset - compression_off + 1]),
          offset |-> state.offset + 1,
          size   |-> state.size - 1]
    ELSE LET half == CopyBackReference(state, compression_off, n \div 2)
         IN  IF half.size = 0 THEN half
             ELSE CopyBackReference(half, compression_off, n - (n \div 2))

\* What an iteration leaves behind when the end of the block hands back
\* the cursor of the start of the output
HuffmanResultFromStart(status, error, bs, buffer, offset, size, distance) ==
    [status |-> status, error |-> error, bs |-> bs, buffer |-> buffer,
     offset |-> IF status = "end" THEN 0 ELSE offset, size |-> size,
     distance |-> distance]

\* What one iteration of the loop of deflate_decode_huffman leaves behind:
\* status is "continue", "end" (code_value = 256) or "error" (return( -1 ))
HuffmanResult(status, error, bs, buffer, offset, size, distance) ==
    [status |-> status, error |-> error, bs |-> bs, buffer |-> buffer,
     offset |-> offset, size |-> size, distance |-> distance]

\* CopyMatch without the check against the size of the output buffer
CopyMatchUnbounded(bs, buffer, buffer_size, offset, compression_sz, compression_off) ==
    IF compression_off > offset
    THEN HuffmanResult("error", "RUNTIME_ERROR_VALUE_OUT_OF_BOUNDS", bs,
                       buffer, offset, compression_sz, compression_off)
    ELSE LET copied == CopyBackReference(
                           [buffer |-> buffer, offset |-> offset,
                            size |-> compression_sz],
                           compression_off, compression_sz)
         IN  HuffmanResult("continue", "", bs, copied.buffer, copied.offset,
                           compression_sz, compression_off)

\* CopyMatch without the check of the distance: the bytes before the start
\* of the buffer read as zero
CopyMatchAnyDistance(bs, buffer, buffer_size, offset, compression_sz, compression_off) ==
    IF offset + compression_sz > buffer_size
    THEN HuffmanResult("error", "ARGUMENT_ERROR_VALUE_TOO_SMALL", bs,
                       buffer, offset, compression_sz, compression_off)
    ELSE IF compression_off > offset
    THEN HuffmanResult("continue", "", bs,
                       SubSeq(buffer, 1, offset) \o [i \in 1..compression_sz |-> 0],
                       offset + compression_sz, compression_sz, compression_off)
    ELSE LET copied == CopyBackReference(
                           [buffer |-> buffer, offset |-> offset,
                            size |-> compression_sz],
                           compression_off, compression_sz)
         IN  HuffmanResult("continue", "", bs, copied.buffer, copied.offset,
                           compression_sz, compression_off)

\* The two checks of a back-reference and its copy
CopyMatch(bs, buffer, buffer_size, offset, compression_sz, compression_off) ==
    IF compression_off > offset
    THEN HuffmanResult("error", "RUNTIME_ERROR_VALUE_OUT_OF_BOUNDS", bs,
                       buffer, offset, compression_sz, compression_off)
    ELSE IF offset + compression_sz > buffer_size
    THEN HuffmanResult("error", "ARGUMENT_ERROR_VALUE_TOO_SMALL", bs,
                       buffer, offset, compression_sz, compression_off)
    ELSE LET copied == CopyBackReference(
                           [buffer |-> buffer, offset |-> offset,
                            size |-> compression_sz],
                           compression_off, compression_sz)
         IN  HuffmanResult("continue", "", bs, copied.buffer, copied.offset,
                           compression_sz, compression_off)

\* The part after the extra bits of the distance were read
DecodeDistanceExtra(code_value, dist_extra, buffer, buffer_size, offset, compression_sz) ==
    IF ~dist_extra.ok
    THEN HuffmanResult("error", "ARGUMENT_ERROR_VALUE_TOO_SMALL", dist_extra.bs,
                       buffer, offset, compression_sz, 0)
    ELSE CopyMatch(dist_extra.bs, buffer, buffer_size, offset, compression_sz,
                   distance_codes_base[code_value + 1] + ToInt(dist_extra.value))

\* The part after the distance code was read
DecodeDistance(data, dist, buffer, buffer_size, offset, compression_sz) ==
    IF ~dist.ok
    THEN HuffmanResult("error", "RUNTIME_ERROR_VALUE_OUT_OF_BOUNDS", dist.bs,
                       buffer, offset, compression_sz, 0)
    ELSE DecodeDistanceExtra(
            dist.value,
            deflate_bit_stream_get_value(
                data, dist.bs, distance_codes_number_of_extra_bits[dist.value + 1]),
            buffer, buffer_size, offset, compression_sz)

\* The part after the extra bits of the length were read, when the length
\* is the base of its code alone
DecodeLengthOfBase(data, distances, code_value, length_extra, buffer, buffer_size, offset) ==
    IF ~length_extra.ok
    THEN HuffmanResult("error", "ARGUMENT_ERROR_VALUE_TOO_SMALL", length_extra.bs,
                       buffer, offset, 0, 0)
    ELSE DecodeDistance(
            data,
            deflate_bit_stream_get_huffman_encoded_value(data, length_extra.bs,
                                                         distances),
            buffer, buffer_size, offset,
            literal_codes_base[code_value - 257 + 1])

\* The part after the extra bits of the length were read
DecodeLength(data, distances, code_value, length_extra, buffer, buffer_size, offset) ==
    IF ~length_extra.ok
    THEN HuffmanResult("error", "ARGUMENT_ERROR_VALUE_TOO_SMALL", length_extra.bs,
                       buffer, offset, 0, 0)
    ELSE DecodeDistance(
            data,
            deflate_bit_stream_get_huffman_encoded_value(data, length_extra.bs,
                                                         distances),
            buffer, buffer_size, offset,
            literal_codes_base[code_value - 257 + 1] + ToInt(length_extra.value))

\* DecodeCode without the upper limit of the length symbols: a symbol
\* above 285 goes on to the distance, as a length of 0 without extra bits
DecodeCodeAnyLength(data, distances, lit, buffer, buffer_size, offset) ==
    IF ~lit.ok
    THEN HuffmanResult("error", "RUNTIME_ERROR_VALUE_OUT_OF_BOUNDS", lit.bs,
                       buffer, offset, 0, 0)
    ELSE IF lit.value < 256
    THEN IF offset >= buffer_size
         THEN HuffmanResult("error", "ARGUMENT_ERROR_VALUE_TOO_SMALL", lit.bs,
                            buffer, offset, 0, 0)
         ELSE HuffmanResult("continue", "", lit.bs,
                            WriteByte(buffer, offset, lit.value), offset + 1, 0, 0)
    ELSE IF lit.value > 256 /\ lit.value < 286
    THEN DecodeLength(
            data, distances, lit.value,
            deflate_bit_stream_get_value(
                data, lit.bs, literal_codes_number_of_extra_bits[lit.value - 257 + 1]),
            buffer, buffer_size, offset)
    ELSE IF lit.value > 285
    THEN DecodeDistance(
            data,
            deflate_bit_stream_get_huffman_encoded_value(data, lit.bs, distances),
            buffer, buffer_size, offset, 0)
    ELSE HuffmanResult("end", "", lit.bs, buffer, offset, 0, 0)

\* The part after the literal/length code lit = [ok, value, bs] was read
DecodeCode(data, distances, lit, buffer, buffer_size, offset) ==
    IF ~lit.ok
    THEN HuffmanResult("error", "RUNTIME_ERROR_VALUE_OUT_OF_BOUNDS", lit.bs,
                       buffer, offset, 0, 0)
    ELSE IF lit.value < 256
    THEN IF offset >= buffer_size
         THEN HuffmanResult("error", "ARGUMENT_ERROR_VALUE_TOO_SMALL", lit.bs,
                            buffer, offset, 0, 0)
         ELSE HuffmanResult("continue", "", lit.bs,
                            WriteByte(buffer, offset, lit.value), offset + 1, 0, 0)
    ELSE IF lit.value > 256 /\ lit.value < 286
    THEN DecodeLength(
            data, distances, lit.value,
            deflate_bit_stream_get_value(
                data, lit.bs, literal_codes_number_of_extra_bits[lit.value - 257 + 1]),
            buffer, buffer_size, offset)
    ELSE IF lit.value # 256
    THEN HuffmanResult("error", "RUNTIME_ERROR_GET_FAILED", lit.bs, buffer, offset, 0, 0)
    ELSE HuffmanResult("end", "", lit.bs, buffer, offset, 0, 0)

\* One iteration of the do .. while( code_value != 256 ) loop.
\* Returns [status, error, bs, buffer, offset, size, distance]
DecodeHuffmanIteration(data, bs, literals, distances, buffer, buffer_size, offset) ==
    DecodeCode(data, distances,
               deflate_bit_stream_get_huffman_encoded_value(data, bs, literals),
               buffer, buffer_size, offset)

(***************************************************************************)
(* deflate_calculate_adler32                                               *)
(***************************************************************************)
RECURSIVE AdlerBytes(_, _, _)
\* n times: lower_word += buffer[ buffer_offset++ ]; upper_word += lower_word,
\* from the state [lower_word, upper_word, buffer_offset]
AdlerBytes(buffer, state, n) ==
    IF n = 0
    THEN state
    ELSE LET lower == Add32(state.lower_word,
                            ToU32(buffer[state.buffer_offset + 1]))
             next  == [lower_word    |-> lower,
                       upper_word    |-> Add32(state.upper_word, lower),
                       buffer_offset |-> state.buffer_offset + 1]
         IN  IF next.buffer_offset < 0 THEN next
             ELSE AdlerBytes(buffer, next, n - 1)

RECURSIVE AdlerGroups(_, _, _)
\* n times the unrolled run of 16 bytes
AdlerGroups(buffer, state, n) ==
    IF n = 0
    THEN state
    ELSE IF n = 1
    THEN AdlerBytes(buffer, state, 16)
    ELSE LET half == AdlerGroups(buffer, state, n \div 2)
         IN  IF half.buffer_offset >= Len(buffer) THEN half
             ELSE AdlerGroups(buffer, half, n - (n \div 2))

\* One shift-and-add step, then the subtraction
AdlerReduceSingleFold(word) ==
    LET first == ToU32(word.lo + (word.hi * 16 - word.hi))
    IN  IF ToInt(first) >= 65521 THEN ToU32(ToInt(first) - 65521) ELSE first

\* Optimized equivalent of: word %= 0xfff1
AdlerReduce(word) ==
    LET Fold(w) == ToU32(w.lo + (w.hi * 16 - w.hi))
        first   == Fold(word)
        second  == IF ToInt(first) > 65521 THEN Fold(first) ELSE first
    IN  IF ToInt(second) >= 65521 THEN ToU32(ToInt(second) - 65521) ELSE second

\* lower_word %= 0xfff1 and upper_word %= 0xfff1
AdlerReduceWords(state) ==
    [state EXCEPT !.lower_word = AdlerReduce(@), !.upper_word = AdlerReduce(@)]

RECURSIVE AdlerBlocks(_, _, _)
\* The while( size >= 0x15b0 ) loop, for size bytes from the state
\* [lower_word, upper_word, buffer_offset]
AdlerBlocks(buffer, state, size) ==
    IF size >= 5552
    THEN LET block == AdlerReduceWords(AdlerGroups(buffer, state, 347))
         IN  IF block.buffer_offset < 0 THEN block
             ELSE AdlerBlocks(buffer, block, size - 5552)
    ELSE state

\* The if( size > 0 ) tail: runs of 16 bytes while( size > 16 ), then
\* single bytes
AdlerTail(buffer, state, size) ==
    IF size > 0
    THEN LET groups == (size - 1) \div 16
             bytes  == AdlerBytes(buffer, AdlerGroups(buffer, state, groups),
                                  size - 16 * groups)
         IN  IF bytes.buffer_offset < 0 THEN bytes
             ELSE AdlerReduceWords(bytes)
    ELSE state

\* The checksum of buffer[ 0 .. size )
deflate_calculate_adler32(buffer, size, initial_value) ==
    LET start  == [lower_word    |-> LowBits32(initial_value, 16),
                   upper_word    |-> LowBits32(Shr32(initial_value, 16), 16),
                   buffer_offset |-> 0]
        blocks == AdlerBlocks(buffer, start, size)
        w      == AdlerTail(buffer, blocks, size % 5552)
    IN  Or32(Shl32(w.upper_word, 16), w.lower_word)

(***************************************************************************)
(* The caller's side: zlib streams (RFC 1950 / RFC 1951) handed to          *)
(* deflate_decompress.  A stream is described by its header bytes, its     *)
(* blocks, its trailer and the bytes that follow it, and is encoded into   *)
(* the bytes of compressed_data.                                           *)
(***************************************************************************)
\* n bits of value, least significant bit first (header fields, extra bits)
LsbBits(value, n) == [i \in 1..n |-> (value \div Pow2(i - 1)) % 2]

\* n bits of a Huffman code, most significant bit first
MsbBits(code, n) == [i \in 1..n |-> (code \div Pow2(n - i)) % 2]

\* The bytes holding a bit sequence, the first bit in bit 0 of the first
\* byte, the last byte padded with zero bits
PackBits(bits) ==
    LET Bit(i) == IF i <= Len(bits) THEN bits[i] ELSE 0
    IN  [k \in 1..((Len(bits) + 7) \div 8) |->
            Bit(8 * k - 7)      + 2 * Bit(8 * k - 6)  + 4 * Bit(8 * k - 5)
          + 8 * Bit(8 * k - 4)  + 16 * Bit(8 * k - 3) + 32 * Bit(8 * k - 2)
          + 64 * Bit(8 * k - 1) + 128 * Bit(8 * k)]

\* The canonical Huffman code of a symbol (RFC 1951 section 3.2.2): codes of
\* one length are consecutive in symbol order, shorter codes come first
CanonicalCode(code_sizes, symbol) ==
    LET size == code_sizes[symbol + 1]
        Count(n) == Cardinality({s \in 1..Len(code_sizes) : code_sizes[s] = n})
        NextCode[n \in 0..15] ==
            IF n = 0 THEN 0
            ELSE 2 * (NextCode[n - 1] + (IF n = 1 THEN 0 ELSE Count(n - 1)))
        rank == Cardinality({s \in 1..symbol : code_sizes[s] = size})
    IN  [code |-> NextCode[size] + rank, size |-> size]

\* The codes of the fixed Huffman alphabets (RFC 1951 section 3.2.6)
FixedLiteralCodes ==
    [symbol \in 0..287 |-> CanonicalCode(SubSeq(FixedCodeSizeArray, 1, 288), symbol)]

FixedDistanceCodes ==
    [symbol \in 0..29 |-> CanonicalCode(SubSeq(FixedCodeSizeArray, 289, 318), symbol)]

\* A dynamic Huffman code: literal 'a' (97), end-of-block (256) and length
\* code 257, one distance code (0); the code sizes are sent run-length
\* encoded with the code length symbols 1, 2 and 18
DynamicLiteralSizes ==
    [symbol \in 1..258 |->
        IF symbol - 1 = 97 THEN 2
        ELSE IF symbol - 1 = 256 THEN 2
        ELSE IF symbol - 1 = 257 THEN 1
        ELSE 0]

DynamicDistanceSizes == <<1>>

DynamicCodeLengthSizes ==
    [symbol \in 1..19 |->
        IF symbol - 1 = 18 THEN 1
        ELSE IF symbol - 1 \in {1, 2} THEN 2
        ELSE 0]

DynamicLiteralCodes ==
    [symbol \in 0..257 |->
        IF DynamicLiteralSizes[symbol + 1] = 0 THEN [code |-> 0, size |-> 0]
        ELSE CanonicalCode(DynamicLiteralSizes, symbol)]

DynamicDistanceCodes ==
    [symbol \in 0..0 |-> CanonicalCode(DynamicDistanceSizes, symbol)]

\* One code length symbol with its extra bits
CodeLengthBits(symbol, extra) ==
    LET c == CanonicalCode(DynamicCodeLengthSizes, symbol)
    IN  MsbBits(c.code, c.size)
        \o LsbBits(extra, IF symbol = 16 THEN 2
                          ELSE IF symbol = 17 THEN 3
                          ELSE IF symbol = 18 THEN 7 ELSE 0)

RECURSIVE CodeSizeFields(_)
\* The first n 3-bit code sizes of the code length alphabet, in the order
\* of RFC 1951 section 3.2.7
CodeSizeFields(n) ==
    IF n = 0 THEN <<>>
    ELSE CodeSizeFields(n - 1)
         \o LsbBits(DynamicCodeLengthSizes[code_sizes_sequence[n] + 1], 3)

\* HLIT = 1 (258 codes), HDIST = 0 (1 code), HCLEN = 14 (18 code sizes),
\* then 97 zeros, 2, 158 zeros, 2, 1 and the distance code size 1
DynamicHeaderBits ==
    LsbBits(1, 5) \o LsbBits(0, 5) \o LsbBits(14, 4) \o CodeSizeFields(18)
    \o CodeLengthBits(18, 97 - 11) \o CodeLengthBits(2, 0)
    \o CodeLengthBits(18, 138 - 11) \o CodeLengthBits(18, 20 - 11)
    \o CodeLengthBits(2, 0) \o CodeLengthBits(1, 0) \o CodeLengthBits(1, 0)

\* The description of a dynamic header (RFC 1951 section 3.2.7): HLIT,
\* HDIST, HCLEN, the code sizes of the 19 code length symbols and the code
\* length symbols <<symbol, extra bits>> that are sent
DynamicHeader(hlit, hdist, hclen, sizes, symbols) ==
    [hlit |-> hlit, hdist |-> hdist, hclen |-> hclen, sizes |-> sizes,
     symbols |-> symbols]

\* The header of DynamicHeaderBits
StandardHeader ==
    DynamicHeader(1, 0, 14, DynamicCodeLengthSizes,
                  <<<<18, 97 - 11>>, <<2, 0>>, <<18, 138 - 11>>, <<18, 20 - 11>>,
                    <<2, 0>>, <<1, 0>>, <<1, 0>>>>)

\* The bits of a dynamic header: the three counts, the first HCLEN + 4 code
\* sizes in the order of RFC 1951, and the code length symbols in the
\* canonical code of the code sizes that were sent
HeaderBits(h) ==
    LET order == <<16, 17, 18, 0, 8, 7, 9, 6, 10, 5, 11, 4, 12, 3, 13, 2, 14, 1, 15>>
        sent  == [symbol \in 1..19 |->
                    IF \E i \in 1..(h.hclen + 4) : order[i] = symbol - 1
                    THEN h.sizes[symbol] ELSE 0]
        RECURSIVE fields(_)
        fields(n) == IF n = 0 THEN <<>>
                     ELSE fields(n - 1) \o LsbBits(h.sizes[order[n] + 1], 3)
        RECURSIVE symbols(_)
        symbols(n) ==
            IF n = 0 THEN <<>>
            ELSE LET symbol == h.symbols[n][1]
                     c      == CanonicalCode(sent, symbol)
                 IN  symbols(n - 1) \o MsbBits(c.code, c.size)
                     \o LsbBits(h.symbols[n][2],
                                IF symbol = 16 THEN 2
                                ELSE IF symbol = 17 THEN 3
                                ELSE IF symbol = 18 THEN 7 ELSE 0)
    IN  LsbBits(h.hlit, 5) \o LsbBits(h.hdist, 5) \o LsbBits(h.hclen, 4)
        \o fields(h.hclen + 4) \o symbols(Len(h.symbols))

\* The index of the length (distance) code that covers a value
CodeIndex(base, extra, value) ==
    CHOOSE i \in 1..Len(base) :
        /\ base[i] <= value
        /\ value < base[i] + Pow2(extra[i])
        /\ \A j \in (i + 1)..Len(base) : base[j] > value

\* A token is a literal (length = 0; a literal above 255 stands for that
\* literal/length symbol sent as is) or a back-reference
Literal(byte) == [literal |-> byte, length |-> 0, distance |-> 0]

Match(length, distance) == [literal |-> 0, length |-> length, distance |-> distance]

TokenBits(token, literal_codes, distance_codes) ==
    IF token.length = 0
    THEN MsbBits(literal_codes[token.literal].code, literal_codes[token.literal].size)
    ELSE LET l == CodeIndex(literal_codes_base, literal_codes_number_of_extra_bits,
                            token.length)
             d == CodeIndex(distance_codes_base, distance_codes_number_of_extra_bits,
                            token.distance)
         IN  MsbBits(literal_codes[256 + l].code, literal_codes[256 + l].size)
             \o LsbBits(token.length - literal_codes_base[l],
                        literal_codes_number_of_extra_bits[l])
             \o MsbBits(distance_codes[d - 1].code, distance_codes[d - 1].size)
             \o LsbBits(token.distance - distance_codes_base[d],
                        distance_codes_number_of_extra_bits[d])

RECURSIVE TokensBits(_, _, _)
TokensBits(tokens, literal_codes, distance_codes) ==
    IF tokens = <<>> THEN <<>>
    ELSE TokenBits(Head(tokens), literal_codes, distance_codes)
         \o TokensBits(Tail(tokens), literal_codes, distance_codes)

\* Block types.  The data of a stored block are its len bytes, given as a
\* pattern that is repeated
StoredBlock(bfinal, len, nlen, data) ==
    [bfinal |-> bfinal, btype |-> 0, len |-> len, nlen |-> nlen, data |-> data,
     tokens |-> <<>>, header |-> StandardHeader]

HuffmanBlock(bfinal, btype, tokens) ==
    [bfinal |-> bfinal, btype |-> btype, len |-> 0, nlen |-> 0, data |-> <<>>,
     tokens |-> tokens, header |-> StandardHeader]

ReservedBlock(bfinal) ==
    [bfinal |-> bfinal, btype |-> 3, len |-> 0, nlen |-> 0, data |-> <<>>,
     tokens |-> <<>>, header |-> StandardHeader]

\* A final block of dynamic Huffman codes that is its header h alone
DynamicBlock(h) ==
    [bfinal |-> 1, btype |-> 2, len |-> 0, nlen |-> 0, data |-> <<>>,
     tokens |-> <<>>, header |-> h]

\* The bytes of the data of a stored block
BlockData(block) ==
    [i \in 1..block.len |-> block.data[((i - 1) % Len(block.data)) + 1]]

\* The bits of a block up to a byte boundary (stored) or its end (Huffman)
BlockBits(block) ==
    LsbBits(block.bfinal, 1) \o LsbBits(block.btype, 2)
    \o (IF block.btype = 1
        THEN TokensBits(block.tokens \o <<Literal(256)>>,
                        FixedLiteralCodes, FixedDistanceCodes)
        ELSE IF block.btype = 2 /\ block.header # StandardHeader
        THEN HeaderBits(block.header)
        ELSE IF block.btype = 2
        THEN DynamicHeaderBits
             \o TokensBits(block.tokens \o <<Literal(256)>>,
                           DynamicLiteralCodes, DynamicDistanceCodes)
        ELSE <<>>)

RECURSIVE EncodeBlocks(_, _, _)
\* The bytes of a block sequence: bytes are the whole bytes so far, bits
\* the bits after them
EncodeBlocks(blocks, bytes, bits) ==
    IF blocks = <<>>
    THEN bytes \o PackBits(bits)
    ELSE LET block == Head(blocks)
         IN  IF block.btype = 0
             THEN EncodeBlocks(Tail(blocks),
                    bytes \o PackBits(bits \o BlockBits(block))
                          \o <<block.len % 256, block.len \div 256,
                               block.nlen % 256, block.nlen \div 256>>
                          \o BlockData(block),
                    <<>>)
             ELSE EncodeBlocks(Tail(blocks), bytes, bits \o BlockBits(block))

RECURSIVE ExpandTokens(_, _)
\* The bytes a token sequence stands for (LZ77), appended to output: a
\* back-reference repeats the last distance bytes of the output for length
\* bytes; one that reaches before the output stands for nothing
ExpandTokens(tokens, output) ==
    IF tokens = <<>> THEN output
    ELSE LET token == Head(tokens)
         IN  IF token.length = 0
             THEN ExpandTokens(Tail(tokens), Append(output, token.literal))
             ELSE IF token.distance > Len(output)
             THEN ExpandTokens(Tail(tokens), output)
             ELSE ExpandTokens(
                    Tail(tokens),
                    output \o [i \in 1..token.length |->
                                 output[Len(output) - token.distance + 1
                                        + ((i - 1) % token.distance)]])

RECURSIVE TokensValid(_, _)
\* Literals are bytes and no back-reference reaches before the output
TokensValid(tokens, size) ==
    IF tokens = <<>> THEN TRUE
    ELSE LET token == Head(tokens)
         IN  IF token.length = 0
             THEN token.literal < 256 /\ TokensValid(Tail(tokens), size + 1)
             ELSE /\ token.length \in 3..258
                  /\ token.distance \in 1..size
                  /\ TokensValid(Tail(tokens), size + token.length)

RECURSIVE BlocksOutput(_, _)
\* The uncompressed data of a block sequence
BlocksOutput(blocks, output) ==
    IF blocks = <<>> THEN output
    ELSE LET block == Head(blocks)
         IN  BlocksOutput(Tail(blocks),
                IF block.btype = 0 THEN output \o BlockData(block)
                ELSE ExpandTokens(block.tokens, output))

RECURSIVE BlocksValid(_, _)
\* Every block is well-formed and exactly the last one has BFINAL set
BlocksValid(blocks, size) ==
    IF blocks = <<>> THEN FALSE
    ELSE LET block == Head(blocks)
             after == Len(BlocksOutput(<<block>>, [i \in 1..size |-> 0]))
         IN  /\ block.btype \in 0..2
             /\ block.header = StandardHeader
             /\ block.btype = 0 => block.nlen = 65535 - block.len
             /\ block.btype # 0 => TokensValid(block.tokens, size)
             /\ IF Len(blocks) = 1 THEN block.bfinal = 1
                ELSE block.bfinal = 0 /\ BlocksValid(Tail(blocks), after)

RECURSIVE WeightedSum(_, _, _, _)
\* The sum modulo 65521 of weight * data[ i ] over i in first .. last,
\* where the weight is 1 (weighted = FALSE) or Len(data) - i + 1
WeightedSum(data, weighted, first, last) ==
    IF first > last THEN 0
    ELSE IF first = last
    THEN ((IF weighted THEN Len(data) - first + 1 ELSE 1) * data[first]) % 65521
    ELSE (WeightedSum(data, weighted, first, (first + last) \div 2)
          + WeightedSum(data, weighted, ((first + last) \div 2) + 1, last)) % 65521

\* Adler-32 of RFC 1950: the sum of the bytes plus one, and the sum of
\* these sums over every prefix, both modulo 65521, the second one in the
\* upper half
ReferenceAdler(data) ==
    U32(((Len(data) % 65521) + WeightedSum(data, TRUE, 1, Len(data))) % 65521,
        (1 + WeightedSum(data, FALSE, 1, Len(data))) % 65521)

\* The four bytes of a 32-bit value, most significant byte first
BigEndianBytes(value) ==
    <<value.hi \div 256, value.hi % 256, value.lo \div 256, value.lo % 256>>

\* The preset dictionary identifier sent when FDICT is set
DictionaryIdentifier == <<1, 2, 3, 4>>

\* FDICT: bit 5 of header byte 1
HasDictionary(s) == (s.hdr1 \div 32) % 2 = 1

\* The trailer of a stream: the Adler-32 of its uncompressed data, the same
\* with the last byte flipped, or nothing
TrailerBytes(s) ==
    LET adler == BigEndianBytes(ReferenceAdler(BlocksOutput(s.blocks, <<>>)))
    IN  IF s.tail = "adler" THEN adler
        ELSE IF s.tail = "flipped" THEN [adler EXCEPT ![4] = 255 - @]
        ELSE <<>>

\* The first s.keep bytes of: header, dictionary identifier, blocks,
\* trailer, s.pad further bytes
EncodeStream(s) ==
    LET all == <<s.hdr0, s.hdr1>>
               \o (IF HasDictionary(s) THEN DictionaryIdentifier ELSE <<>>)
               \o EncodeBlocks(s.blocks, <<>>, <<>>)
               \o TrailerBytes(s)
               \o [i \in 1..s.pad |-> 0]
    IN  IF s.keep < Len(all) THEN SubSeq(all, 1, s.keep) ELSE all

(***************************************************************************)
(* The streams the model hands to deflate_decompress                       *)
(***************************************************************************)
\* The largest number of blocks in a stream
MaxBlocks == 2

\* The largest number of bytes that follow the trailer
MaxPad == 4

\* The largest capacity of the caller's buffer (small streams)
MaxCapacity == 8

\* The longest prefix of a stream that is tried as a truncated input
MaxKeep == 12

\* The block size of the large stored block
BigBlockSize == 65535

KeepAll == BigBlockSize + 1000

Flags == {0, 1}

Trailers == {"adler", "flipped", "none"}

FixedTokenLists ==
    {<<>>, <<Literal(97)>>, <<Literal(200), Match(3, 1)>>, <<Match(4, 2)>>,
     <<Literal(286)>>, <<Literal(0), Match(258, 1)>>}

DynamicTokenLists == {<<Literal(97), Match(3, 1)>>}

\* The blocks of the streams of one block
Blocks ==
    UNION {
        {StoredBlock(f, 0, 65535, <<>>), StoredBlock(f, 1, 65534, <<97>>),
         StoredBlock(f, 1, 0, <<97>>), ReservedBlock(f)}
        \cup {HuffmanBlock(f, 1, t) : t \in FixedTokenLists}
        \cup {HuffmanBlock(f, 2, t) : t \in DynamicTokenLists}
      : f \in Flags}

\* The blocks of the streams of several blocks
ChainBlocks ==
    UNION {
        {StoredBlock(f, 0, 65535, <<>>), StoredBlock(f, 1, 65534, <<97>>),
         HuffmanBlock(f, 1, <<Literal(97), Literal(98)>>),
         HuffmanBlock(f, 1, <<Match(4, 2)>>),
         HuffmanBlock(f, 2, <<Literal(97), Match(3, 1)>>)}
      : f \in Flags}

BlockSequences(blocks, n) == UNION {[1..k -> blocks] : k \in 1..n}

Stream(hdr0, hdr1, blocks, tail, pad, keep, capacity) ==
    [hdr0 |-> hdr0, hdr1 |-> hdr1, blocks |-> blocks, tail |-> tail,
     pad |-> pad, keep |-> keep, capacity |-> capacity]

\* Block sequences behind the usual header, with every trailer, without and
\* with bytes after it
SequenceStreams ==
    {Stream(120, 156, b, t, p, KeepAll, MaxCapacity) :
        b \in BlockSequences(ChainBlocks, MaxBlocks), t \in Trailers,
        p \in {0, MaxPad}}

\* Single blocks with every number of bytes after the trailer
PaddedStreams ==
    {Stream(120, 156, b, t, p, KeepAll, MaxCapacity) :
        b \in BlockSequences(Blocks, 1), t \in Trailers, p \in 0..MaxPad}

\* Single blocks with every capacity
CapacityStreams ==
    {Stream(120, 156, b, t, p, KeepAll, c) :
        b \in BlockSequences(Blocks, 1), t \in Trailers, p \in {0, MaxPad},
        c \in 0..MaxCapacity}

\* Single blocks behind every header: compression methods 7 and 8, window
\* bits 8, 15, 16 and 23, without and with FDICT
HeaderStreams ==
    {Stream(h0, h1, b, t, p, KeepAll, MaxCapacity) :
        h0 \in {8, 119, 120, 136, 248}, h1 \in {156, 187},
        b \in BlockSequences(Blocks, 1), t \in Trailers, p \in {0, MaxPad}}

\* Truncated streams
TruncatedStreams ==
    {Stream(120, h1, b, "adler", 0, k, MaxCapacity) :
        h1 \in {156, 187}, b \in BlockSequences(Blocks, 1), k \in 0..MaxKeep}

\* A stored block of 65535 bytes, with a right and with a wrong NLEN
BigStreams ==
    {Stream(120, 156, <<StoredBlock(1, BigBlockSize, nlen, <<1, 2, 3, 5, 8>>)>>, "none", 2,
            KeepAll, c) :
        nlen \in {0, 4660}, c \in {BigBlockSize - 1, BigBlockSize}}

RECURSIVE ZeroRun(_)
\* The code length symbols of a run of n code sizes 0: symbol 0 for fewer
\* than 3, symbol 17 for 3 to 10, symbol 18 for 11 to 138 of them
ZeroRun(n) ==
    IF n <= 0 THEN <<>>
    ELSE IF n < 3 THEN <<<<0, 0>>>> \o ZeroRun(n - 1)
    ELSE IF n < 11 THEN <<<<17, n - 3>>>>
    ELSE IF n <= 138 THEN <<<<18, n - 11>>>>
    ELSE <<<<18, 127>>>> \o ZeroRun(n - 138)

\* The values of HLIT and of HDIST: the smallest ones, the largest ones
\* that are allowed (286 and 30 codes) and the ones above them
HeaderCounts == {0, 1, 29, 30, 31}

\* The values of HCLEN: 4, 5 and 19 code sizes
HeaderCodeCounts == {0, 1, 15}

\* The code sizes of the code length symbols 0, 8 and 16 to 18
HeaderCodeSizes ==
    [symbol \in 1..19 |->
        IF symbol - 1 \in {0, 8, 18} THEN 2
        ELSE IF symbol - 1 \in {16, 17} THEN 3
        ELSE 0]

\* Code length symbols for HLIT + 257 and HDIST + 1 code sizes, v being
\* the code size that is not 0: the end-of-block symbol and the first
\* distance alone; a repeat of the end-of-block code size (3 and 6 times);
\* no end-of-block symbol, without and with another literal; a repeat as
\* the first symbol; a run of zeros that is 3 too long
HeaderSymbolLists(hlit, hdist, v) ==
    {ZeroRun(256) \o <<<<v, 0>>>> \o ZeroRun(hlit) \o <<<<v, 0>>>> \o ZeroRun(hdist),
     ZeroRun(256) \o <<<<v, 0>>, <<16, 0>>>> \o ZeroRun(hlit + hdist - 2),
     ZeroRun(256) \o <<<<v, 0>>, <<16, 3>>>> \o ZeroRun(hlit + hdist - 5),
     ZeroRun(257 + hlit) \o <<<<v, 0>>>> \o ZeroRun(hdist),
     <<<<v, 0>>>> \o ZeroRun(256 + hlit) \o <<<<v, 0>>>> \o ZeroRun(hdist),
     <<<<16, 0>>>> \o ZeroRun(hlit + hdist + 258),
     ZeroRun(256) \o <<<<v, 0>>>> \o ZeroRun(hlit + hdist + 4)}

\* The dynamic headers: with 4 code sizes the code length symbol 8 has no
\* code, and every code size is 0; and the headers whose code sizes of the
\* code length symbols are all 0
DynamicHeaders ==
    UNION {{DynamicHeader(hlit, hdist, hclen, HeaderCodeSizes, symbols) :
              symbols \in HeaderSymbolLists(hlit, hdist, IF hclen = 0 THEN 0 ELSE 8)}
           : hlit \in HeaderCounts, hdist \in HeaderCounts, hclen \in HeaderCodeCounts}
    \cup {DynamicHeader(0, 0, hclen, [symbol \in 1..19 |-> 0], <<>>) :
             hclen \in HeaderCodeCounts}

\* One block of dynamic Huffman codes with each of these headers, bytes of
\* 0 after it
DynamicHeaderStreams ==
    {Stream(120, 156, <<DynamicBlock(h)>>, "none", MaxPad, KeepAll, MaxCapacity) :
        h \in DynamicHeaders}

\* The literal 'a' and a back-reference of length 9 and distance 1, for a
\* buffer of 9 and of 10 bytes; the literal/length symbol 287; lengths
\* and distances with extra bits, up to the largest ones, for a buffer of
\* 300 bytes as well
RunStreams ==
    {Stream(120, 156, <<HuffmanBlock(1, 1, tokens)>>, t, MaxPad, KeepAll, c) :
        tokens \in {<<Literal(97), Match(9, 1)>>, <<Literal(287)>>,
                    <<Literal(97), Match(12, 1)>>,
                    <<Literal(97), Literal(98), Match(257, 2)>>,
                    <<Literal(97), Match(258, 32768)>>,
                    <<Match(130, 24576)>>},
        t \in Trailers, c \in {9, 10, 300}}

Streams ==
    SequenceStreams \cup PaddedStreams \cup CapacityStreams \cup HeaderStreams
    \cup TruncatedStreams \cup BigStreams \cup DynamicHeaderStreams \cup RunStreams

(***************************************************************************)
(* deflate_decompress                                                      *)
(***************************************************************************)
VARIABLES
    stream,                          \* the stream the caller encoded
    uncompressed_data,               \* the bytes of the buffer written so far
    uncompressed_data_size,          \* *uncompressed_data_size
    uncompressed_data_offset,
    bit_stream,
    dynamic_huffman_literals_table,
    dynamic_huffman_distances_table,
    preset_dictionary_identifier,
    last_block_flag,
    block_type,
    data_offset,                     \* of deflate_decode_huffman
    compression_size,                \* of deflate_decode_huffman
    compression_offset,              \* of deflate_decode_huffman
    stored_checksum,
    calculated_checksum,
    pc,                              \* the position in deflate_decompress
    result,                          \* the return value, 0 while running
    error                            \* the first error that was set

\* The arguments and results of the functions of deflate.c when they are
\* called on their own
VARIABLES
    byte_stream,                     \* bit_stream->byte_stream
    number_of_bits,                  \* of deflate_bit_stream_get_value
    safe_value_32bit,                \* the value stored in *value_32bit
    code_sizes_array,                \* of deflate_huffman_table_construct
    table                            \* *table

function_vars ==
    <<byte_stream, number_of_bits, safe_value_32bit, code_sizes_array, table>>

vars ==
    <<function_vars, stream, uncompressed_data, uncompressed_data_size,
      uncompressed_data_offset, bit_stream, dynamic_huffman_literals_table,
      dynamic_huffman_distances_table, preset_dictionary_identifier,
      last_block_flag, block_type, data_offset, compression_size,
      compression_offset, stored_checksum, calculated_checksum, pc, result,
      error>>

\* The bytes of the input: the caller's encoding of the stream.  An
\* operation names them data once and reads them from there
compressed_data == EncodeStream(stream)

\* The tables deflate_initialize_fixed_huffman_tables builds
FixedHuffmanTables == deflate_initialize_fixed_huffman_tables

Init ==
    /\ stream \in Streams
    /\ uncompressed_data = <<>>
    /\ uncompressed_data_size = stream.capacity
    /\ uncompressed_data_offset = 0
    /\ bit_stream = [byte_stream_size |-> 0, byte_stream_offset |-> 0,
                     bit_buffer |-> U32(0, 0), bit_buffer_size |-> 0]
    /\ dynamic_huffman_literals_table = ClearedTable
    /\ dynamic_huffman_distances_table = ClearedTable
    /\ preset_dictionary_identifier = U32(0, 0)
    /\ last_block_flag = 0
    /\ block_type = 0
    /\ data_offset = 0
    /\ compression_size = 0
    /\ compression_offset = 0
    /\ stored_checksum = U32(0, 0)
    /\ calculated_checksum = U32(0, 0)
    /\ pc = "header"
    /\ result = 0
    /\ error = ""
    /\ byte_stream = <<>>
    /\ number_of_bits = 0
    /\ safe_value_32bit = U32(0, 0)
    /\ code_sizes_array = <<>>
    /\ table = ClearedTable

\* return( -1 ) after libcerror_error_set
Fail(code) ==
    /\ pc' = "done"
    /\ result' = -1
    /\ error' = code

\* The window size without the 8 added to the window bits
CompressionWindowSizeNoBase(compression_information) ==
    Shl32(U32(0, 1), compression_information)

\* compression_window_size = 1UL << ( compression_information + 8 )
CompressionWindowSize(compression_information) ==
    Shl32(U32(0, 1), compression_information + 8)

\* The zlib header: lines 1495 - 1740
ReadHeader ==
    /\ pc = "header"
    /\ \E data \in {compressed_data} :
       LET size   == Len(data)
           fdict  == size >= 2 /\ (data[2] \div 32) % 2 = 1
           offset == IF fdict THEN 6 ELSE 2
           compression_method      == data[1] % 16
           compression_information == data[1] \div 16
           compression_window_size == CompressionWindowSize(compression_information)
       IN  /\ preset_dictionary_identifier' =
                 IF fdict /\ size >= 6 THEN Uint32BigEndian(data, 2)
                 ELSE preset_dictionary_identifier
           /\ IF size < 2
              THEN Fail("ARGUMENT_ERROR_VALUE_TOO_SMALL") /\ UNCHANGED bit_stream
              ELSE IF fdict /\ size < 6
              THEN Fail("ARGUMENT_ERROR_VALUE_TOO_SMALL") /\ UNCHANGED bit_stream
              ELSE IF compression_method # 8
              THEN Fail("RUNTIME_ERROR_UNSUPPORTED_VALUE") /\ UNCHANGED bit_stream
              ELSE IF ToInt(compression_window_size) > 32768
              THEN Fail("RUNTIME_ERROR_UNSUPPORTED_VALUE") /\ UNCHANGED bit_stream
              ELSE IF offset >= size - offset
              THEN Fail("ARGUMENT_ERROR_VALUE_TOO_SMALL") /\ UNCHANGED bit_stream
              ELSE IF ~FixedHuffmanTables.ok
              THEN Fail("RUNTIME_ERROR_INITIALIZE_FAILED") /\ UNCHANGED bit_stream
              ELSE /\ bit_stream' = [byte_stream_size   |-> size - offset,
                                     byte_stream_offset |-> offset,
                                     bit_buffer         |-> U32(0, 0),
                                     bit_buffer_size    |-> 0]
                   /\ pc' = "loop"
                   /\ UNCHANGED <<result, error>>
    /\ UNCHANGED <<function_vars, stream, uncompressed_data,
                   uncompressed_data_size, uncompressed_data_offset,
                   dynamic_huffman_literals_table, dynamic_huffman_distances_table,
                   last_block_flag, block_type, data_offset, compression_size,
                   compression_offset, stored_checksum, calculated_checksum>>

\* last_block_flag = value_32bit & 1
LastBlockFlag(value_32bit) == value_32bit.lo % 2

\* The block type taken from the two low bits, the last block flag included
BlockTypeLowBits(value_32bit) == value_32bit.lo % 4

\* block_type = value_32bit >> 1
BlockType(value_32bit) == ToInt(Shr32(value_32bit, 1))

\* The loop condition, the three header bits and the switch: lines 1743 - 1807,
\* 1938, 1959, 1995 - 2005
ReadBlockHeader ==
    /\ pc = "loop"
    /\ IF bit_stream.byte_stream_offset < bit_stream.byte_stream_size
       THEN \E data \in {compressed_data} :
            LET r == deflate_bit_stream_get_value(data, bit_stream, 3)
                type == BlockType(r.value)
            IN  /\ bit_stream' = r.bs
                /\ IF ~r.ok
                   THEN /\ Fail("ARGUMENT_ERROR_VALUE_TOO_SMALL")
                        /\ UNCHANGED <<last_block_flag, block_type, data_offset>>
                   ELSE /\ last_block_flag' = LastBlockFlag(r.value)
                        /\ block_type' = type
                        /\ IF type = 0
                           THEN /\ pc' = "stored"
                                /\ UNCHANGED <<result, error, data_offset>>
                           ELSE IF type = 1
                           THEN /\ pc' = "decode"
                                /\ data_offset' = uncompressed_data_offset
                                /\ UNCHANGED <<result, error>>
                           ELSE IF type = 2
                           THEN /\ pc' = "dynamic"
                                /\ UNCHANGED <<result, error, data_offset>>
                           ELSE /\ Fail("RUNTIME_ERROR_UNSUPPORTED_VALUE")
                                /\ UNCHANGED data_offset
       ELSE /\ pc' = "trailer"
            /\ UNCHANGED <<bit_stream, last_block_flag, block_type, data_offset,
                           result, error>>
    /\ UNCHANGED <<function_vars, stream, uncompressed_data,
                   uncompressed_data_size, uncompressed_data_offset,
                   dynamic_huffman_literals_table, dynamic_huffman_distances_table,
                   preset_dictionary_identifier, compression_size,
                   compression_offset, stored_checksum, calculated_checksum>>

\* if( last_block_flag != 0 ) break; at the end of the loop body
AfterBlock == IF last_block_flag # 0 THEN "trailer" ELSE "loop"

\* block_size_copy = ( block_size >> 16 ) ^ 0x0000ffffUL, computed from the
\* block size that was masked to 16 bits before
BlockSizeCopy(block_size) == Xor32(Shr32(block_size, 16), U32(0, 65535))

\* case DEFLATE_BLOCK_TYPE_UNCOMPRESSED: lines 1807 - 1936
DecodeStoredBlock ==
    /\ pc = "stored"
    /\ \E data \in {compressed_data} :
       LET skip_bits == bit_stream.bit_buffer_size % 8
           skipped == IF skip_bits > 0
                      THEN deflate_bit_stream_get_value(data, bit_stream,
                                                        skip_bits)
                      ELSE [ok |-> TRUE, value |-> U32(0, 0), bs |-> bit_stream]
           sizes == deflate_bit_stream_get_value(data, skipped.bs, 32)
           masked == LowBits32(sizes.value, 16)
           block_size == ToInt(masked)
           block_size_copy == ToInt(BlockSizeCopy(masked))
           offset == sizes.bs.byte_stream_offset
       IN  IF ~skipped.ok
           THEN /\ Fail("ARGUMENT_ERROR_VALUE_TOO_SMALL")
                /\ bit_stream' = skipped.bs
                /\ UNCHANGED <<uncompressed_data, uncompressed_data_offset>>
           ELSE IF ~sizes.ok
           THEN /\ Fail("ARGUMENT_ERROR_VALUE_TOO_SMALL")
                /\ bit_stream' = sizes.bs
                /\ UNCHANGED <<uncompressed_data, uncompressed_data_offset>>
           ELSE IF block_size # block_size_copy
           THEN /\ Fail("INPUT_ERROR_VALUE_MISMATCH")
                /\ bit_stream' = sizes.bs
                /\ UNCHANGED <<uncompressed_data, uncompressed_data_offset>>
           ELSE IF block_size = 0
           THEN /\ pc' = AfterBlock
                /\ bit_stream' = sizes.bs
                /\ UNCHANGED <<uncompressed_data, uncompressed_data_offset,
                               result, error>>
           ELSE IF block_size > sizes.bs.byte_stream_size - offset
           THEN /\ Fail("ARGUMENT_ERROR_VALUE_TOO_SMALL")
                /\ bit_stream' = sizes.bs
                /\ UNCHANGED <<uncompressed_data, uncompressed_data_offset>>
           ELSE IF block_size > uncompressed_data_size - uncompressed_data_offset
           THEN /\ Fail("ARGUMENT_ERROR_VALUE_TOO_SMALL")
                /\ bit_stream' = sizes.bs
                /\ UNCHANGED <<uncompressed_data, uncompressed_data_offset>>
           ELSE /\ uncompressed_data' =
                      SubSeq(uncompressed_data, 1, uncompressed_data_offset)
                      \o SubSeq(data, offset + 1, offset + block_size)
                      \o SubSeq(uncompressed_data,
                                uncompressed_data_offset + block_size + 1,
                                Len(uncompressed_data))
                /\ uncompressed_data_offset' = uncompressed_data_offset + block_size
                /\ bit_stream' = [sizes.bs EXCEPT
                                    !.byte_stream_offset = @ + block_size,
                                    !.bit_buffer = U32(0, 0),
                                    !.bit_buffer_size = 0]
                /\ pc' = AfterBlock
                /\ UNCHANGED <<result, error>>
    /\ UNCHANGED <<function_vars, stream, uncompressed_data_size,
                   dynamic_huffman_literals_table, dynamic_huffman_distances_table,
                   preset_dictionary_identifier, last_block_flag, block_type,
                   data_offset, compression_size, compression_offset,
                   stored_checksum, calculated_checksum>>

\* case DEFLATE_BLOCK_TYPE_HUFFMAN_DYNAMIC, the tables: lines 1959 - 1974
InitializeDynamicTables ==
    /\ pc = "dynamic"
    /\ \E data \in {compressed_data} :
       LET r == deflate_initialize_dynamic_huffman_tables(data, bit_stream)
       IN  /\ bit_stream' = r.bs
           /\ dynamic_huffman_literals_table' = r.literals_table
           /\ dynamic_huffman_distances_table' = r.distances_table
           /\ IF r.ok
              THEN /\ pc' = "decode"
                   /\ data_offset' = uncompressed_data_offset
                   /\ UNCHANGED <<result, error>>
              ELSE /\ Fail(r.error)
                   /\ UNCHANGED data_offset
    /\ UNCHANGED <<function_vars, stream, uncompressed_data,
                   uncompressed_data_size, uncompressed_data_offset,
                   preset_dictionary_identifier, last_block_flag, block_type,
                   compression_size, compression_offset, stored_checksum,
                   calculated_checksum>>

\* One iteration of the loop of deflate_decode_huffman, called at lines 1939
\* and 1975 with the fixed or the dynamic tables
DecodeHuffmanSymbol ==
    /\ pc = "decode"
    /\ \E data \in {compressed_data} :
       LET literals  == IF block_type = 1 THEN FixedHuffmanTables.literals_table
                        ELSE dynamic_huffman_literals_table
           distances == IF block_type = 1 THEN FixedHuffmanTables.distances_table
                        ELSE dynamic_huffman_distances_table
           r == DecodeHuffmanIteration(data, bit_stream, literals,
                                       distances, uncompressed_data,
                                       uncompressed_data_size, data_offset)
       IN  /\ bit_stream' = r.bs
           /\ uncompressed_data' = r.buffer
           /\ data_offset' = r.offset
           /\ compression_size' = r.size
           /\ compression_offset' = r.distance
           /\ IF r.status = "error"
              THEN Fail(r.error) /\ UNCHANGED uncompressed_data_offset
              ELSE IF r.status = "end"
              THEN /\ uncompressed_data_offset' = r.offset
                   /\ pc' = AfterBlock
                   /\ UNCHANGED <<result, error>>
              ELSE UNCHANGED <<uncompressed_data_offset, pc, result, error>>
    /\ UNCHANGED <<function_vars, stream, uncompressed_data_size,
                   dynamic_huffman_literals_table, dynamic_huffman_distances_table,
                   preset_dictionary_identifier, last_block_flag, block_type,
                   stored_checksum, calculated_checksum>>

\* No byte is put back
UnreadNothing(bs) == bs

RECURSIVE UnreadBytes(_)
\* while( bit_buffer_size >= 8 ) { byte_stream_offset -= 1; bit_buffer_size -= 8; }
UnreadBytes(bs) ==
    IF bs.bit_buffer_size >= 8
    THEN UnreadBytes([bs EXCEPT !.byte_stream_offset = @ - 1,
                                !.bit_buffer_size = @ - 8])
    ELSE bs

\* The checksum and the result: lines 2016 - 2071
VerifyChecksum ==
    /\ pc = "trailer"
    /\ IF bit_stream.byte_stream_size - bit_stream.byte_stream_offset >= 4
       THEN \E data \in {compressed_data} :
            LET bs == UnreadBytes(bit_stream)
                stored == Uint32BigEndian(data, bs.byte_stream_offset)
                calculated == deflate_calculate_adler32(uncompressed_data,
                                                        uncompressed_data_offset,
                                                        U32(0, 1))
            IN  /\ bit_stream' = bs
                /\ stored_checksum' = stored
                /\ calculated_checksum' = calculated
                /\ IF stored # calculated
                   THEN Fail("INPUT_ERROR_CHECKSUM_MISMATCH")
                        /\ UNCHANGED uncompressed_data_size
                   ELSE /\ uncompressed_data_size' = uncompressed_data_offset
                        /\ pc' = "done"
                        /\ result' = 1
                        /\ UNCHANGED error
       ELSE /\ uncompressed_data_size' = uncompressed_data_offset
            /\ pc' = "done"
            /\ result' = 1
            /\ UNCHANGED <<bit_stream, stored_checksum, calculated_checksum, error>>
    /\ UNCHANGED <<function_vars, stream, uncompressed_data,
                   uncompressed_data_offset, dynamic_huffman_literals_table,
                   dynamic_huffman_distances_table, preset_dictionary_identifier,
                   last_block_flag, block_type, data_offset, compression_size,
                   compression_offset>>

Next ==
    \/ ReadHeader
    \/ ReadBlockHeader
    \/ DecodeStoredBlock
    \/ InitializeDynamicTables
    \/ DecodeHuffmanSymbol
    \/ VerifyChecksum

Spec == Init /\ [][Next]_vars

(***************************************************************************)
(* Properties                                                              *)
(***************************************************************************)
\* deflate_decompress has returned
Done == pc = "done"

\* The uncompressed data of the stream the caller encoded
Original == BlocksOutput(stream.blocks, <<>>)

\* The caller encoded well-formed blocks, the last one and only the last
\* one with BFINAL, and handed in all of their bytes
BlocksWellFormed ==
    /\ BlocksValid(stream.blocks, 0)
    /\ stream.keep = KeepAll

\* A supported header without FDICT
HeaderWellFormed ==
    /\ stream.hdr0 % 16 = 8
    /\ stream.hdr0 \div 16 <= 7
    /\ ~HasDictionary(stream)

\* A zlib-compliant stream: header, blocks, Adler-32 trailer, nothing else
ZlibCompliant ==
    /\ HeaderWellFormed
    /\ BlocksWellFormed
    /\ stream.tail = "adler"
    /\ stream.pad = 0

\* Bit p of the input, bit 0 being the lowest bit of the first byte
InputBit(p) == (compressed_data[(p \div 8) + 1] \div Pow2(p % 8)) % 2

\* The position in the input of the next bit the bit stream hands out
NextBit == 8 * bit_stream.byte_stream_offset - bit_stream.bit_buffer_size

\* The offset in the input of the LEN field of the stored block that is
\* about to be decoded: the next byte boundary
StoredStart ==
    bit_stream.byte_stream_offset - (bit_stream.bit_buffer_size \div 8)

StoredLen ==
    compressed_data[StoredStart + 1] + 256 * compressed_data[StoredStart + 2]

StoredNlen ==
    compressed_data[StoredStart + 3] + 256 * compressed_data[StoredStart + 4]

\* LEN and NLEN lie inside the bytes the bit stream may read
StoredHeaderReadable ==
    /\ pc = "stored"
    /\ StoredStart + 4 <= bit_stream.byte_stream_size

\* C1: a zlib-compliant stream handed in with enough room decompresses to
\* the data it was made from: success, the size and the bytes of the data
RoundTrip ==
    (Done /\ ZlibCompliant /\ stream.capacity >= Len(Original))
        => /\ result = 1
           /\ uncompressed_data_size = Len(Original)
           /\ Len(uncompressed_data) >= Len(Original)
           /\ SubSeq(uncompressed_data, 1, Len(Original)) = Original

\* C2: for a stream of header, blocks and a 4-byte trailer that ends the
\* input, success means that the trailer is the Adler-32 of the output
ChecksumVerified ==
    (/\ Done
     /\ result = 1
     /\ HeaderWellFormed
     /\ BlocksWellFormed
     /\ stream.tail \in {"adler", "flipped"}
     /\ stream.pad = 0)
        => Uint32BigEndian(compressed_data, Len(compressed_data) - 4)
             = ReferenceAdler(SubSeq(uncompressed_data, 1, uncompressed_data_offset))

\* C3: success is returned only after a block with BFINAL = 1 was decoded
\* to its end
FinalBlockDecoded ==
    (Done /\ result = 1) => last_block_flag = 1

\* C4: a stored block with NLEN = ~LEN whose LEN bytes are in the input and
\* fit the output is accepted: its bytes are copied to the output at the
\* cursor, the cursor advances by LEN and the next block starts at the byte
\* after them
StoredBlockCopied ==
    [][(/\ StoredHeaderReadable
        /\ StoredNlen = 65535 - StoredLen
        /\ StoredStart + 4 + StoredLen <= bit_stream.byte_stream_size
        /\ uncompressed_data_offset + StoredLen <= uncompressed_data_size)
          => /\ result' = 0
             /\ pc' = AfterBlock
             /\ uncompressed_data_offset' = uncompressed_data_offset + StoredLen
             /\ Len(uncompressed_data') >= uncompressed_data_offset'
             /\ SubSeq(uncompressed_data', uncompressed_data_offset + 1,
                       uncompressed_data_offset') =
                SubSeq(compressed_data, StoredStart + 5,
                       StoredStart + 4 + StoredLen)
             /\ bit_stream'.byte_stream_offset = StoredStart + 4 + StoredLen
             /\ bit_stream'.bit_buffer_size = 0]_vars

\* C5: a stored block whose NLEN differs from ~LEN makes the call fail, and
\* none of its bytes reaches the output
StoredLengthChecked ==
    [][(StoredHeaderReadable /\ StoredNlen # 65535 - StoredLen)
          => /\ result' = -1
             /\ pc' = "done"
             /\ uncompressed_data' = uncompressed_data
             /\ uncompressed_data_offset' = uncompressed_data_offset]_vars

\* C6: the cursor stays within the capacity the caller gave, no byte is
\* written at or beyond it, and a well-formed stream that decodes to more
\* bytes than the capacity fails
OutputWithinBounds ==
    /\ 0 <= uncompressed_data_offset
    /\ uncompressed_data_offset <= stream.capacity
    /\ 0 <= data_offset
    /\ data_offset <= stream.capacity
    /\ Len(uncompressed_data) <= stream.capacity
    /\ (/\ Done
        /\ HeaderWellFormed
        /\ BlocksWellFormed
        /\ stream.tail = "adler"
        /\ Len(Original) > stream.capacity) => result = -1

\* A back-reference that would run over the end of the output was refused
OutputOverflowRefused ==
    /\ Done
    /\ HeaderWellFormed
    /\ BlocksWellFormed
    /\ stream.tail = "adler"
    /\ Len(Original) > stream.capacity
    /\ compression_size > 0
    /\ compression_offset <= data_offset
    /\ data_offset + compression_size > stream.capacity
    /\ result = -1
    /\ error = "ARGUMENT_ERROR_VALUE_TOO_SMALL"

\* C7: a decoded distance above the cursor fails before a byte is copied;
\* a copy reads, for every byte it writes, the byte that lies distance
\* before it, with 1 <= distance <= cursor; the cursor never decreases
BackReferenceValid ==
    [][/\ (pc = "decode" /\ compression_offset' > data_offset)
            => /\ pc' = "done"
               /\ result' = -1
               /\ uncompressed_data' = uncompressed_data
               /\ data_offset' = data_offset
       /\ (pc = "decode" /\ compression_size' > 0 /\ data_offset' > data_offset)
            => /\ 1 <= compression_offset'
               /\ compression_offset' <= data_offset
               /\ data_offset' = data_offset + compression_size'
               /\ \A i \in (data_offset + 1)..data_offset' :
                     uncompressed_data'[i] = uncompressed_data'[i - compression_offset']
       /\ data_offset' >= data_offset
       /\ uncompressed_data_offset' >= uncompressed_data_offset]_vars

\* A back-reference with a distance above the cursor was refused
BadDistanceRefused ==
    /\ Done
    /\ compression_size > 0
    /\ compression_offset > data_offset
    /\ uncompressed_data = <<>>
    /\ result = -1
    /\ error = "RUNTIME_ERROR_VALUE_OUT_OF_BOUNDS"

\* C8: an input with FDICT set never decompresses with success
PresetDictionaryRefused ==
    (/\ Done
     /\ Len(compressed_data) >= 2
     /\ (compressed_data[2] \div 32) % 2 = 1) => result = -1

\* C9: an input whose first byte names a compression method other than 8
\* or window bits above 15 fails, and no block of it is decoded and no byte
\* of output written
UnsupportedHeaderRefused ==
    (/\ Len(compressed_data) >= 1
     /\ \/ compressed_data[1] % 16 # 8
        \/ compressed_data[1] \div 16 > 7)
        => /\ pc \in {"header", "done"}
           /\ Done => result = -1
           /\ uncompressed_data = <<>>
           /\ uncompressed_data_offset = 0
           /\ bit_stream.byte_stream_offset = 0
           /\ bit_stream.bit_buffer_size = 0

\* A header with compression method 8 and window bits above 15 was refused
UnsupportedWindowRefused ==
    /\ Done
    /\ Len(compressed_data) > 6
    /\ compressed_data[1] % 16 = 8
    /\ compressed_data[1] \div 16 > 7
    /\ result = -1
    /\ error = "RUNTIME_ERROR_UNSUPPORTED_VALUE"

\* C10: of the three bits of a block header the first is the last block
\* flag and the next two are the block type; type 3 fails at once and
\* nothing is read after it, types 0, 1 and 2 go on to the stored, the
\* fixed Huffman and the dynamic Huffman decoding
BlockHeaderDispatch ==
    [][/\ ~Done
       /\ (pc = "loop"
           /\ bit_stream.byte_stream_offset < bit_stream.byte_stream_size)
            => LET bfinal == InputBit(NextBit)
                   btype  == InputBit(NextBit + 1) + 2 * InputBit(NextBit + 2)
               IN  /\ last_block_flag' = bfinal
                   /\ block_type' = btype
                   /\ btype = 0 => (pc' = "stored" /\ result' = 0)
                   /\ btype = 1 => (pc' = "decode" /\ result' = 0)
                   /\ btype = 2 => (pc' = "dynamic" /\ result' = 0)
                   /\ btype = 3 => /\ pc' = "done"
                                   /\ result' = -1
                                   /\ error' = "RUNTIME_ERROR_UNSUPPORTED_VALUE"]_vars

\* A block of the reserved type was refused
ReservedBlockRefused ==
    /\ Done
    /\ block_type = 3
    /\ result = -1
    /\ error = "RUNTIME_ERROR_UNSUPPORTED_VALUE"

\* C11: a well-formed stream whose last block has BFINAL and that is followed
\* by fewer than 4 bytes instead of a trailer decompresses with success to
\* the data it was made from
MissingTrailerTolerated ==
    (/\ Done
     /\ HeaderWellFormed
     /\ BlocksWellFormed
     /\ stream.tail = "none"
     /\ stream.pad < 4
     /\ stream.capacity >= Len(Original))
        => /\ result = 1
           /\ uncompressed_data_size = Len(Original)
           /\ Len(uncompressed_data) >= Len(Original)
           /\ SubSeq(uncompressed_data, 1, Len(Original)) = Original

(***************************************************************************)
(* The functions of deflate.c called on their own                          *)
(***************************************************************************)
\* The variables of deflate_decompress that a call of one function leaves
\* alone
decompress_vars ==
    <<stream, uncompressed_data, uncompressed_data_size,
      uncompressed_data_offset, dynamic_huffman_literals_table,
      dynamic_huffman_distances_table, preset_dictionary_identifier,
      last_block_flag, block_type, data_offset, compression_size,
      compression_offset, stored_checksum, calculated_checksum, error>>

\* deflate_decompress is not running
NotDecompressing ==
    /\ stream = Stream(120, 156, <<>>, "none", 0, 0, 0)
    /\ uncompressed_data = <<>>
    /\ uncompressed_data_size = 0
    /\ uncompressed_data_offset = 0
    /\ dynamic_huffman_literals_table = ClearedTable
    /\ dynamic_huffman_distances_table = ClearedTable
    /\ preset_dictionary_identifier = U32(0, 0)
    /\ last_block_flag = 0
    /\ block_type = 0
    /\ data_offset = 0
    /\ compression_size = 0
    /\ compression_offset = 0
    /\ stored_checksum = U32(0, 0)
    /\ calculated_checksum = U32(0, 0)
    /\ error = ""

\* A bit stream at the start of size bytes
NewBitStream(size) ==
    [byte_stream_size |-> size, byte_stream_offset |-> 0,
     bit_buffer |-> U32(0, 0), bit_buffer_size |-> 0]

\* The largest number of bytes of a byte stream
MaxBytes == 5

\* The byte streams: the first bytes of a byte pattern
ByteStreams ==
    {[i \in 1..k |-> (90 * i * i + 31 * i + 5) % 256] : k \in 0..MaxBytes}

\* The numbers of bits that are asked for: 0 .. 32 and one above
BitCounts == 0..33

InitBits ==
    /\ NotDecompressing
    /\ byte_stream \in ByteStreams
    /\ bit_stream = NewBitStream(Len(byte_stream))
    /\ number_of_bits = 0
    /\ safe_value_32bit = U32(0, 0)
    /\ code_sizes_array = <<>>
    /\ table = ClearedTable
    /\ pc = "bits"
    /\ result = 0

\* One call of deflate_bit_stream_get_value; *value_32bit is written on
\* success only
GetValue ==
    /\ pc = "bits"
    /\ \E n \in BitCounts :
          LET r == deflate_bit_stream_get_value(byte_stream, bit_stream, n)
          IN  /\ number_of_bits' = n
              /\ bit_stream' = r.bs
              /\ safe_value_32bit' = IF r.ok THEN r.value ELSE safe_value_32bit
              /\ result' = IF r.ok THEN 1 ELSE -1
    /\ UNCHANGED <<byte_stream, code_sizes_array, table, pc, decompress_vars>>

NextBits == GetValue

SpecBits == InitBits /\ [][NextBits]_vars

\* Bit p of a byte stream, bit 0 being the lowest bit of the first byte
StreamBit(data, p) == (data[(p \div 8) + 1] \div Pow2(p % 8)) % 2

RECURSIVE BitsNumber(_, _, _)
\* The number made of the n bits from bit p on, the first one lowest
BitsNumber(data, p, n) ==
    IF n = 0 THEN 0
    ELSE StreamBit(data, p) + 2 * BitsNumber(data, p + 1, n - 1)

\* The same for up to 32 bits, as a uint32_t
BitsValue(data, p, n) ==
    IF n <= 16
    THEN U32(0, BitsNumber(data, p, n))
    ELSE U32(BitsNumber(data, p + 16, n - 16), BitsNumber(data, p, 16))

\* C12: a call for n bits that the byte stream still holds returns the next
\* n bits, the first one lowest, and the bit stream goes on behind them; a
\* call for 0 bits returns 0 and changes nothing; more than 32 bits are
\* refused
BitReaderContract ==
    [][pc = "bits" =>
         /\ number_of_bits' > 32 => (result' = -1 /\ bit_stream' = bit_stream)
         /\ number_of_bits' = 0
              => /\ result' = 1
                 /\ safe_value_32bit' = U32(0, 0)
                 /\ bit_stream' = bit_stream
         /\ (/\ number_of_bits' \in 1..32
             /\ NextBit + number_of_bits' <= 8 * Len(byte_stream))
              => /\ result' = 1
                 /\ safe_value_32bit' = BitsValue(byte_stream, NextBit, number_of_bits')
                 /\ NextBit' = NextBit + number_of_bits']_vars

(***************************************************************************)
(* deflate_huffman_table_construct and                                     *)
(* deflate_bit_stream_get_huffman_encoded_value called on their own        *)
(***************************************************************************)
\* The largest number of code sizes of a vector of code sizes
MaxCodeSizes == 4

\* The code sizes of the vectors
CodeSizes == {0, 1, 2, 3, 15, 16}

\* The vectors of code sizes: every short vector, two with a code size
\* above 16 and the two vectors of the fixed Huffman tables
CodeSizeVectors ==
    UNION {[1..k -> CodeSizes] : k \in 0..MaxCodeSizes}
    \cup {<<17>>, <<1, 17>>}
    \cup {SubSeq(FixedCodeSizeArray, 1, 288), SubSeq(FixedCodeSizeArray, 289, 318)}

\* What may lie behind the end of code_offsets_array
Beyond == {-1, 0, 2, 400}

\* The byte streams the Huffman encoded values are read from
HuffmanByteStreams == {<<>>, <<172>>, <<1, 0>>, <<0, 64>>, <<126, 171, 140>>}

\* The numbers of bits read from the bit stream before a Huffman encoded value
SkippedBits == 1..7

InitTable ==
    /\ NotDecompressing
    /\ code_sizes_array \in CodeSizeVectors
    /\ byte_stream \in HuffmanByteStreams
    /\ bit_stream = NewBitStream(Len(byte_stream))
    /\ number_of_bits = 0
    /\ safe_value_32bit = U32(0, 0)
    /\ table = ClearedTable
    /\ pc = "table"
    /\ result = 0

\* One call of deflate_huffman_table_construct
ConstructTable ==
    /\ pc = "table"
    /\ \E beyond \in Beyond :
          LET r == deflate_huffman_table_construct(code_sizes_array, beyond)
          IN  /\ table' = r.table
              /\ result' = r.result
    /\ pc' = "constructed"
    /\ UNCHANGED <<byte_stream, bit_stream, number_of_bits, safe_value_32bit,
                   code_sizes_array, decompress_vars>>

\* One call of deflate_bit_stream_get_value before a Huffman encoded
\* value is read
SkipBits ==
    /\ pc = "constructed"
    /\ result = 1
    /\ \E n \in SkippedBits :
          LET r == deflate_bit_stream_get_value(byte_stream, bit_stream, n)
          IN  /\ number_of_bits' = n
              /\ bit_stream' = r.bs
              /\ safe_value_32bit' = IF r.ok THEN r.value ELSE safe_value_32bit
              /\ result' = IF r.ok THEN 1 ELSE -1
    /\ pc' = "skipped"
    /\ UNCHANGED <<byte_stream, code_sizes_array, table, decompress_vars>>

\* One call of deflate_bit_stream_get_huffman_encoded_value with the
\* table that was constructed
ReadHuffman ==
    /\ pc \in {"constructed", "skipped"}
    /\ result = 1
    /\ LET r == deflate_bit_stream_get_huffman_encoded_value(byte_stream, bit_stream, table)
       IN  /\ bit_stream' = r.bs
           /\ safe_value_32bit' = IF r.ok THEN U32(0, r.value) ELSE safe_value_32bit
           /\ result' = IF r.ok THEN 1 ELSE -1
    /\ pc' = "read"
    /\ UNCHANGED <<byte_stream, number_of_bits, code_sizes_array, table, decompress_vars>>

NextTable == ConstructTable \/ SkipBits \/ ReadHuffman

SpecTable == InitTable /\ [][NextTable]_vars

\* C13: a vector with a code size above 15 is rejected
CodeSizeBounded ==
    [][(/\ pc = "table"
        /\ \E symbol \in 1..Len(code_sizes_array) : code_sizes_array[symbol] > 15)
          => result' = -1]_vars


RECURSIVE KraftSum(_, _)
\* The sum of 2^(-code size) over the non-zero code sizes up to bit_index,
\* in units of 2^(-15)
KraftSum(code_sizes, bit_index) ==
    IF bit_index = 0
    THEN 0
    ELSE KraftSum(code_sizes, bit_index - 1)
         + Cardinality({symbol \in 1..Len(code_sizes) : code_sizes[symbol] = bit_index})
           * 2^(15 - bit_index)

\* TRUE iff every code size of the vector is at most 15
CodeSizesInRange ==
    \A symbol \in 1..Len(code_sizes_array) : code_sizes_array[symbol] \in 0..15

\* C14: for code sizes 0..15 the result is 0 iff all of them are zero,
\* otherwise -1 iff their Kraft sum exceeds 1, otherwise 1
TableResultClassified ==
    [][(pc = "table" /\ CodeSizesInRange)
          => result' = IF \A symbol \in 1..Len(code_sizes_array) : code_sizes_array[symbol] = 0
                       THEN 0
                       ELSE IF KraftSum(code_sizes_array, 15) > 2^15
                       THEN -1
                       ELSE 1]_vars

\* A single one-bit code, an incomplete set, was accepted
IncompleteSetAccepted ==
    /\ pc = "constructed"
    /\ code_sizes_array = <<1>>
    /\ result = 1


\* C19: after a successful construction from code sizes 0..15 the counts
\* are the histogram of the code sizes, and codes_array lists the symbols
\* with a non-zero code size by code size first and by symbol second
CanonicalTableLayout ==
    (pc = "constructed" /\ result = 1 /\ CodeSizesInRange /\ Len(code_sizes_array) <= 288)
      => LET size(symbol) == code_sizes_array[symbol + 1]
             coded == {symbol \in 0..(Len(code_sizes_array) - 1) : size(symbol) # 0}
             codes == table.codes_array
         IN  /\ \A k \in 0..15 :
                   table.code_counts_array[k]
                     = Cardinality({symbol \in 0..(Len(code_sizes_array) - 1) : size(symbol) = k})
             /\ {codes[j] : j \in 0..(Cardinality(coded) - 1)} = coded
             /\ \A j \in 0..(Cardinality(coded) - 2) :
                   \/ size(codes[j]) < size(codes[j + 1])
                   \/ size(codes[j]) = size(codes[j + 1]) /\ codes[j] < codes[j + 1]

\* A table of three symbols that are not in the order of their code sizes
UnsortedCodeSizesSorted ==
    /\ pc = "constructed"
    /\ result = 1
    /\ code_sizes_array = <<2, 1, 0, 2>>
    /\ table.codes_array[0] = 1
    /\ table.codes_array[1] = 0
    /\ table.codes_array[2] = 3
    /\ table.code_counts_array[2] = 2


\* C20: when the next bits of the bit stream are the canonical code of a
\* symbol, highest bit of the code first, that symbol is returned and
\* exactly the bits of its code are taken
HuffmanRoundTrip ==
    [][(pc \in {"constructed", "skipped"} /\ pc' = "read" /\ CodeSizesInRange)
          => \A symbol \in 0..(Len(code_sizes_array) - 1) :
                LET code_size == code_sizes_array[symbol + 1]
                    code      == CanonicalCode(code_sizes_array, symbol).code
                IN  (/\ code_size # 0
                     /\ NextBit + code_size <= 8 * Len(byte_stream)
                     /\ \A i \in 0..(code_size - 1) :
                           StreamBit(byte_stream, NextBit + i)
                             = (code \div Pow2(code_size - 1 - i)) % 2)
                      => /\ result' = 1
                         /\ safe_value_32bit' = U32(0, symbol)
                         /\ NextBit' = NextBit + code_size]_vars

\* The two-bit code of symbol 3 was read from bits 2 and 3 of a stream of
\* one byte
ShortStreamSymbolRead ==
    /\ pc = "read"
    /\ result = 1
    /\ code_sizes_array = <<2, 1, 0, 2>>
    /\ byte_stream = <<172>>
    /\ safe_value_32bit = U32(0, 3)
    /\ NextBit = 4


(***************************************************************************)
(* The header of a block of dynamic Huffman codes                          *)
(***************************************************************************)
RECURSIVE ExpandCodeLengths(_, _, _)
\* The code lengths that code length symbols stand for (RFC 1951 section
\* 3.2.7), appended to lengths until there are total of them: [ok, fault,
\* lengths, rest].  fault = TRUE when symbol 16 has no length before it or
\* when a repeat runs past the total; ok = FALSE then and when the symbols
\* end before the total; rest are the symbols after the last one that was
\* looked at
ExpandCodeLengths(symbols, lengths, total) ==
    IF Len(lengths) >= total
    THEN [ok |-> TRUE, fault |-> FALSE, lengths |-> lengths, rest |-> symbols]
    ELSE IF symbols = <<>>
    THEN [ok |-> FALSE, fault |-> FALSE, lengths |-> lengths, rest |-> symbols]
    ELSE LET symbol == Head(symbols)[1]
             extra  == Head(symbols)[2]
             times  == IF symbol < 16 THEN 1
                       ELSE IF symbol = 18 THEN 11 + extra ELSE 3 + extra
         IN  IF symbol = 16 /\ lengths = <<>>
             THEN [ok |-> FALSE, fault |-> TRUE, lengths |-> lengths,
                   rest |-> Tail(symbols)]
             ELSE IF Len(lengths) + times > total
             THEN [ok |-> FALSE, fault |-> TRUE, lengths |-> lengths,
                   rest |-> Tail(symbols)]
             ELSE ExpandCodeLengths(
                     Tail(symbols),
                     lengths \o [i \in 1..times |->
                                   IF symbol < 16 THEN symbol
                                   ELSE IF symbol = 16 THEN lengths[Len(lengths)]
                                   ELSE 0],
                     total)

\* The stream is one block of dynamic Huffman codes whose header is about
\* to be read
DynamicHeaderNext ==
    /\ pc = "dynamic"
    /\ Len(stream.blocks) = 1
    /\ stream.blocks[1].btype = 2

\* The code lengths the header of that block stands for
HeaderLengths ==
    LET h == stream.blocks[1].header
    IN  ExpandCodeLengths(h.symbols, <<>>, h.hlit + 257 + h.hdist + 1)

\* C15: a dynamic header that gives the end-of-block symbol 256 the code
\* length 0 makes the call fail, and the block writes no output
EndOfBlockRequired ==
    [][(DynamicHeaderNext /\ HeaderLengths.ok /\ HeaderLengths.lengths[256 + 1] = 0)
          => /\ result' = -1
             /\ pc' = "done"
             /\ uncompressed_data' = uncompressed_data
             /\ uncompressed_data_offset' = uncompressed_data_offset]_vars

\* A header that has a code for literal 0 and none for the end-of-block
\* symbol was refused
EndOfBlockMissingRefused ==
    /\ pc = "done"
    /\ result = -1
    /\ error = "RUNTIME_ERROR_VALUE_MISSING"
    /\ Len(stream.blocks) = 1
    /\ stream.blocks[1].header.hlit = 29
    /\ stream.blocks[1].header.hdist = 0
    /\ stream.blocks[1].header.symbols[1] = <<8, 0>>
    /\ HeaderLengths.ok
    /\ HeaderLengths.lengths[1] = 8
    /\ HeaderLengths.lengths[256 + 1] = 0


\* TRUE iff a table can be constructed from these code lengths: they are
\* not all 0 and their Kraft sum is at most 1
Constructible(lengths) ==
    /\ \E symbol \in 1..Len(lengths) : lengths[symbol] # 0
    /\ KraftSum(lengths, 15) <= 2^15

\* C16: the 14 bits are HLIT, HDIST and HCLEN, lowest bit first; more than
\* 286 literal codes or more than 30 distance codes are refused right
\* there; otherwise HCLEN + 4 code sizes of 3 bits and the code length
\* symbols are read, for at most 316 code lengths, and a header without
\* another fault is accepted
DynamicHeaderMaxima ==
    [][(pc = "dynamic" /\ NextBit + 14 <= 8 * bit_stream.byte_stream_size)
          => \A data \in {compressed_data} :
                LET hlit  == BitsNumber(data, NextBit, 5)
                    hdist == BitsNumber(data, NextBit + 5, 5)
                    hclen == BitsNumber(data, NextBit + 10, 4)
                    h     == stream.blocks[1].header
                IN  /\ (hlit + 257 > 286 \/ hdist + 1 > 30)
                         => /\ result' = -1
                            /\ pc' = "done"
                            /\ NextBit' = NextBit + 14
                    /\ (/\ hlit + 257 <= 286
                        /\ hdist + 1 <= 30
                        /\ DynamicHeaderNext
                        /\ HeaderLengths.ok
                        /\ HeaderLengths.rest = <<>>
                        /\ NextBit + Len(HeaderBits(h)) <= 8 * bit_stream.byte_stream_size)
                         => /\ Len(HeaderBits(h)) >= 14 + 3 * (hclen + 4)
                            /\ NextBit' = NextBit + Len(HeaderBits(h))
                            /\ Len(HeaderLengths.lengths) <= 316
                            /\ (/\ HeaderLengths.lengths[256 + 1] # 0
                                /\ Constructible(SubSeq(HeaderLengths.lengths, 1, hlit + 257))
                                /\ Constructible(SubSeq(HeaderLengths.lengths, hlit + 258,
                                                        hlit + 257 + hdist + 1)))
                                 => (pc' = "decode" /\ result' = result)]_vars

\* A header with 286 literal codes and 30 distance codes was accepted
LargestCountsAccepted ==
    /\ pc = "decode"
    /\ result = 0
    /\ Len(stream.blocks) = 1
    /\ stream.blocks[1].header.hlit = 29
    /\ stream.blocks[1].header.hdist = 29
    /\ stream.blocks[1].header.hclen = 1
    /\ NextBit = 19 + Len(HeaderBits(stream.blocks[1].header))


\* C17: the code length symbols of a header with allowed counts are decoded
\* as RFC 1951 says: a repeat with no length before it or past the total
\* makes the call fail; otherwise the first HLIT + 257 code lengths make the
\* literals table and the other HDIST + 1 the distances table
CodeLengthsDecoded ==
    [][(/\ DynamicHeaderNext
        /\ stream.blocks[1].header.hlit + 257 <= 286
        /\ stream.blocks[1].header.hdist + 1 <= 30
        /\ NextBit + Len(HeaderBits(stream.blocks[1].header))
             <= 8 * bit_stream.byte_stream_size)
          => LET h         == stream.blocks[1].header
                 lengths   == HeaderLengths.lengths
                 literals  == SubSeq(lengths, 1, h.hlit + 257)
                 distances == SubSeq(lengths, h.hlit + 258, h.hlit + 257 + h.hdist + 1)
             IN  /\ HeaderLengths.fault => (result' = -1 /\ pc' = "done")
                 /\ (/\ HeaderLengths.ok
                     /\ Len(lengths) = h.hlit + 257 + h.hdist + 1
                     /\ lengths[256 + 1] # 0
                     /\ Constructible(literals)
                     /\ Constructible(distances))
                      => /\ pc' = "decode"
                         /\ dynamic_huffman_literals_table'
                              = deflate_huffman_table_construct(literals, 0).table
                         /\ dynamic_huffman_distances_table'
                              = deflate_huffman_table_construct(distances, 0).table]_vars

\* A repeat of the code length of the end-of-block symbol went on from the
\* literals into the distances
RepeatAcrossTables ==
    /\ pc = "decode"
    /\ Len(stream.blocks) = 1
    /\ stream.blocks[1].header.hlit = 1
    /\ stream.blocks[1].header.hdist = 1
    /\ stream.blocks[1].header.hclen = 1
    /\ stream.blocks[1].header.symbols = <<<<18, 127>>, <<18, 107>>, <<8, 0>>, <<16, 0>>>>
    /\ NextBit = 19 + Len(HeaderBits(stream.blocks[1].header))
    /\ dynamic_huffman_literals_table.code_counts_array[8] = 2
    /\ dynamic_huffman_literals_table.codes_array[0] = 256
    /\ dynamic_huffman_literals_table.codes_array[1] = 257
    /\ dynamic_huffman_distances_table.code_counts_array[8] = 2


\* C18: a back-reference that is accepted at cursor c writes length
\* bytes, each one the byte that lies distance before it, so that the last
\* distance bytes before c are repeated; the cursor becomes c + length and
\* the bytes before c stay as they were
BackReferenceCopied ==
    [][(pc = "decode" /\ compression_size' > 0 /\ data_offset' > data_offset)
          => LET c        == data_offset
                 length   == compression_size'
                 distance == compression_offset'
             IN  /\ data_offset' = c + length
                 /\ Len(uncompressed_data') >= c + length
                 /\ \A i \in 0..(length - 1) :
                       /\ uncompressed_data'[c + i + 1]
                            = uncompressed_data'[c + i - distance + 1]
                       /\ uncompressed_data'[c + i + 1]
                            = uncompressed_data[c - distance + (i % distance) + 1]
                 /\ \A j \in 1..c : uncompressed_data'[j] = uncompressed_data[j]]_vars

\* The literal 'a' and a back-reference of length 9 and distance 1 made ten
\* times 'a'
TenLettersCopied ==
    /\ compression_size = 9
    /\ compression_offset = 1
    /\ data_offset = 10
    /\ uncompressed_data = [i \in 1..10 |-> 97]


\* C21: when the bits that follow are the code of no symbol, or the byte
\* stream ends before a code is complete, the call fails, stores no value
\* and leaves the bit buffer as it was filled
HuffmanFailureKeepsBits ==
    [][(/\ pc \in {"constructed", "skipped"}
        /\ pc' = "read"
        /\ CodeSizesInRange
        /\ \A symbol \in 0..(Len(code_sizes_array) - 1) :
              LET code_size == code_sizes_array[symbol + 1]
                  code      == CanonicalCode(code_sizes_array, symbol).code
              IN  ~(/\ code_size # 0
                    /\ NextBit + code_size <= 8 * Len(byte_stream)
                    /\ \A i \in 0..(code_size - 1) :
                          StreamBit(byte_stream, NextBit + i)
                            = (code \div Pow2(code_size - 1 - i)) % 2))
          => /\ result' = -1
             /\ safe_value_32bit' = safe_value_32bit
             /\ bit_stream' = BitStreamPrefill(byte_stream, bit_stream)
             /\ NextBit' = NextBit]_vars

\* The bit 1 was refused by the table of the single code 0, with 16 bits in
\* the bit buffer
UndefinedCodeRefused ==
    /\ pc = "read"
    /\ result = -1
    /\ code_sizes_array = <<1>>
    /\ byte_stream = <<1, 0>>
    /\ bit_stream.bit_buffer_size = 16
    /\ bit_stream.bit_buffer = U32(0, 1)


\* C22: a literal/length symbol below 256 is written as a byte; 256 ends
\* the block and hands the cursor to the caller; 257 to 285 stand for a
\* length of 3 to 258 and are followed by a distance of 1 to 32768, both
\* as the base of their code plus its extra bits (RFC 1951 section 3.2.5);
\* 286 and 287 make the call fail
LiteralLengthDispatch ==
    [][(/\ pc = "decode"
        /\ \A b \in 1..Len(stream.blocks) : stream.blocks[b].header = StandardHeader)
          => \A data \in {compressed_data} :
                LET limit    == 8 * bit_stream.byte_stream_size
                    literals == IF block_type = 1 THEN FixedLiteralCodes
                                ELSE DynamicLiteralCodes
                    distances == IF block_type = 1 THEN FixedDistanceCodes
                                 ELSE DynamicDistanceCodes
                    Matches(codes, s, p) ==
                        /\ codes[s].size # 0
                        /\ p + codes[s].size <= limit
                        /\ \A i \in 0..(codes[s].size - 1) :
                              StreamBit(data, p + i)
                                = (codes[s].code \div Pow2(codes[s].size - 1 - i)) % 2
                    LengthExtra(s) == IF s < 265 \/ s = 285 THEN 0 ELSE (s - 261) \div 4
                    LengthBase(s)  == IF s < 265 THEN s - 254
                                      ELSE IF s = 285 THEN 258
                                      ELSE (4 + ((s - 265) % 4)) * Pow2(LengthExtra(s)) + 3
                    DistanceExtra(d) == IF d < 4 THEN 0 ELSE (d \div 2) - 1
                    DistanceBase(d)  == IF d < 4 THEN d + 1
                                        ELSE (2 + (d % 2)) * Pow2(DistanceExtra(d)) + 1
                IN  \A s \in DOMAIN literals :
                       Matches(literals, s, NextBit)
                         => LET p1 == NextBit + literals[s].size
                                p2 == p1 + LengthExtra(s)
                            IN  /\ (s < 256 /\ data_offset < uncompressed_data_size)
                                     => /\ pc' = "decode"
                                        /\ data_offset' = data_offset + 1
                                        /\ uncompressed_data'[data_offset + 1] = s
                                        /\ \A j \in 1..data_offset :
                                              uncompressed_data'[j] = uncompressed_data[j]
                                        /\ NextBit' = p1
                                /\ s = 256
                                     => /\ pc' \notin {"decode", "done"}
                                        /\ result' = result
                                        /\ uncompressed_data' = uncompressed_data
                                        /\ uncompressed_data_offset' = data_offset
                                        /\ NextBit' = p1
                                /\ (s > 256 /\ s < 286)
                                     => \A d \in DOMAIN distances :
                                           (/\ Matches(distances, d, p2)
                                            /\ p2 + distances[d].size + DistanceExtra(d) <= limit)
                                             => LET p3 == p2 + distances[d].size
                                                    length == LengthBase(s)
                                                        + BitsNumber(data, p1, LengthExtra(s))
                                                    distance == DistanceBase(d)
                                                        + BitsNumber(data, p3, DistanceExtra(d))
                                                IN  /\ length \in 3..258
                                                    /\ distance \in 1..32768
                                                    /\ compression_size' = length
                                                    /\ compression_offset' = distance
                                                    /\ NextBit' = p3 + DistanceExtra(d)
                                /\ s > 285
                                     => /\ pc' = "done"
                                        /\ result' = -1
                                        /\ uncompressed_data' = uncompressed_data
                                        /\ NextBit' = p1]_vars

\* The largest length and the largest distance were decoded, and the
\* back-reference was refused for its distance
LargestMatchDecoded ==
    /\ pc = "done"
    /\ result = -1
    /\ error = "RUNTIME_ERROR_VALUE_OUT_OF_BOUNDS"
    /\ compression_size = 258
    /\ compression_offset = 32768
    /\ data_offset = 1


(***************************************************************************)
(* deflate_calculate_adler32 on its own: the checksum of the first size    *)
(* bytes of a buffer, called as deflate_decompress calls it                *)
(***************************************************************************)
\* The largest number of whole runs of 0x15b0 bytes in a buffer
MaxAdlerBlocks == 2

\* The buffers: byte patterns of MaxAdlerBlocks runs of 0x15b0 bytes and
\* one byte less than a further run
AdlerBuffers ==
    {[i \in 1..(5552 * MaxAdlerBlocks + 5551) |->
        CASE p = 0 -> 255
          [] p = 1 -> 0
          [] p = 2 -> (i - 1) % 256
          [] OTHER -> 255 - ((i * i) % 256)] : p \in 0..3}

InitAdler ==
    /\ stream = Stream(120, 156, <<>>, "none", 0, 0, 0)
    /\ uncompressed_data \in AdlerBuffers
    /\ uncompressed_data_size = Len(uncompressed_data)
    /\ uncompressed_data_offset
         \in {5552 * k + d : k \in 0..MaxAdlerBlocks,
                             d \in {0, 1, 15, 16, 17, 32, 33, 4095, 5551}}
    /\ dynamic_huffman_literals_table = ClearedTable
    /\ dynamic_huffman_distances_table = ClearedTable
    /\ preset_dictionary_identifier = U32(0, 0)
    /\ last_block_flag = 0
    /\ block_type = 0
    /\ data_offset = 0
    /\ compression_size = 0
    /\ compression_offset = 0
    /\ stored_checksum = U32(0, 0)
    /\ calculated_checksum = U32(0, 0)
    /\ error = ""
    /\ byte_stream = <<>>
    /\ bit_stream = NewBitStream(0)
    /\ number_of_bits = 0
    /\ safe_value_32bit = U32(0, 0)
    /\ code_sizes_array = <<>>
    /\ table = ClearedTable
    /\ pc = "adler32"
    /\ result = 0

\* One call of deflate_calculate_adler32 with initial_value 1
CalculateAdler32 ==
    /\ pc = "adler32"
    /\ calculated_checksum' = deflate_calculate_adler32(uncompressed_data,
                                                        uncompressed_data_offset,
                                                        U32(0, 1))
    /\ result' = 1
    /\ pc' = "calculated"
    /\ UNCHANGED <<function_vars, bit_stream, stream, uncompressed_data,
                   uncompressed_data_size, uncompressed_data_offset,
                   dynamic_huffman_literals_table,
                   dynamic_huffman_distances_table,
                   preset_dictionary_identifier, last_block_flag, block_type,
                   data_offset, compression_size, compression_offset,
                   stored_checksum, error>>

SpecAdler == InitAdler /\ [][CalculateAdler32]_vars

\* C23: with initial_value 1 the checksum is (hi << 16) | lo of the sums
\* lo = (lo + b) mod 65521, hi = (hi + lo) mod 65521 taken byte by byte
\* from lo = 1, hi = 0, and in every run of at most 0x15b0 bytes the sums
\* that are reduced afterwards stay below 2^32
AdlerPerByteModulo ==
    pc = "calculated" =>
        \A buffer \in {uncompressed_data} :
        LET size == uncompressed_data_offset
            Step(w, b) == <<(w[1] + b) % 65521,
                            (w[2] + ((w[1] + b) % 65521)) % 65521>>
            RECURSIVE PerByte(_, _, _)
            PerByte(w, first, last) ==
                IF first > last THEN w
                ELSE IF first = last THEN Step(w, buffer[first])
                ELSE LET half == PerByte(w, first, (first + last) \div 2)
                     IN  IF half[1] < 0 THEN half
                         ELSE PerByte(half, ((first + last) \div 2) + 1, last)
            Carry(q, r, s) == <<q + (r \div 65536), r % 65536, s>>
            RECURSIVE Weighted(_, _)
            \* the sum of (last - i + 1) * buffer[ i ] over first .. last,
            \* as quotient and remainder of the division by 65536, and
            \* the sum of buffer[ i ]
            Weighted(first, last) ==
                IF first > last THEN <<0, 0, 0>>
                ELSE IF first = last THEN <<0, buffer[first], buffer[first]>>
                ELSE LET mid   == (first + last) \div 2
                         left  == Weighted(first, mid)
                         right == Weighted(mid + 1, last)
                         more  == left[3] * (last - mid)
                     IN  Carry(left[1] + right[1] + (more \div 65536),
                               left[2] + right[2] + (more % 65536),
                               left[3] + right[3])
            \* the sums of the run of n bytes that starts with the sums w
            \* after the first done bytes, before they are reduced:
            \* <<lower, upper quotient, upper remainder>>
            Unreduced(w, done, n) ==
                LET sum   == Weighted(done + 1, done + n)
                    first == w[2] + n * w[1]
                    upper == Carry(sum[1] + (first \div 65536),
                                   sum[2] + (first % 65536), 0)
                IN  <<w[1] + sum[3], upper[1], upper[2]>>
            final == PerByte(<<1, 0>>, 1, size)
        IN  /\ calculated_checksum = U32(final[2], final[1])
            /\ \A k \in 0..((size \div 5552) - 1) :
                  LET w == PerByte(<<1, 0>>, 1, 5552 * k)
                      u == Unreduced(w, 5552 * k, 5552)
                      a == AdlerGroups(buffer,
                                       [lower_word    |-> U32(0, w[1]),
                                        upper_word    |-> U32(0, w[2]),
                                        buffer_offset |-> 5552 * k], 347)
                  IN  /\ u[2] <= 65535
                      /\ a.lower_word = ToU32(u[1])
                      /\ a.upper_word = U32(u[2], u[3])
            /\ Unreduced(PerByte(<<1, 0>>, 1, 5552 * (size \div 5552)),
                         5552 * (size \div 5552), size % 5552)[2] <= 65535

\* The checksum of 16655 bytes 0xff was calculated: three runs whose upper
\* sums pass 2^31
ThreeRunsReduced ==
    /\ pc = "calculated"
    /\ uncompressed_data_offset = 16655
    /\ \A i \in {1, 5552, 16655} : uncompressed_data[i] = 255
    /\ calculated_checksum = U32(22240, 53682)


(***************************************************************************)
(* Termination of deflate_decompress                                       *)
(***************************************************************************)
\* deflate_decompress runs on its caller's thread until it returns: weak
\* fairness of Next, where a step is possible in the states with
\* pc # "done" and in no other state
FairSpec == Spec /\ ([]<>(pc = "done") \/ []<><<Next>>_vars)

\* C24: deflate_decompress returns for every input and every capacity, and
\* every iteration of the block loop, of the symbol loop and of the loop
\* decoding the code sizes takes at least one bit from the input or ends
\* the call
DecompressReturns ==
    /\ <>(pc = "done")
    /\ [][/\ pc = "loop" => (NextBit' > NextBit \/ pc' \in {"trailer", "done"})
          /\ pc = "decode" => (NextBit' > NextBit \/ pc' = "done")]_vars
    /\ [](pc = "dynamic" =>
            \A data \in {compressed_data} :
            LET BitOf(bs) == 8 * bs.byte_stream_offset - bs.bit_buffer_size
                header == deflate_bit_stream_get_value(data, bit_stream, 14)
                number_of_literal_codes  == (ToInt(header.value) % 32) + 257
                number_of_distance_codes == ((ToInt(header.value) \div 32) % 32) + 1
                total == number_of_literal_codes + number_of_distance_codes
                read  == ReadCodeSizes(data, header.bs, 0,
                                       (ToInt(header.value) \div 1024) + 4,
                                       [i \in 1..19 |-> 0])
                codes == deflate_huffman_table_construct(read.sizes, 0)
                RECURSIVE Iterations(_, _)
                \* the next n iterations from state: the state they end in
                \* and whether each of them took a bit or failed
                Iterations(state, n) ==
                    IF ~state.s.ok \/ ~state.took \/ n = 0
                       \/ Len(state.s.sizes) >= total
                    THEN state
                    ELSE IF n = 1
                    THEN LET next == DecodeCodeSize(data, codes.table, state.s,
                                                    total)
                         IN  [s    |-> next,
                              took |-> \/ ~next.ok
                                       \/ BitOf(next.bs) > BitOf(state.s.bs)]
                    ELSE LET half == Iterations(state, n \div 2)
                         IN  IF ~half.took THEN half
                             ELSE Iterations(half, n - (n \div 2))
            IN  (/\ header.ok
                 /\ number_of_literal_codes <= 286
                 /\ number_of_distance_codes <= 30
                 /\ read.ok
                 /\ codes.result = 1)
                  => Iterations([s    |-> [ok |-> TRUE, error |-> "",
                                           bs |-> read.bs, sizes |-> <<>>],
                                 took |-> TRUE], total).took)

\* A stream of two blocks, the last one with dynamic tables, was decoded
\* to its end and the call returned 1
TwoBlocksReturned ==
    /\ pc = "done"
    /\ result = 1
    /\ block_type = 2
    /\ Len(stream.blocks) = 2
    /\ uncompressed_data_offset > 0


\* C25: when the checksum is compared, the stored checksum is the
\* big-endian value of the 4 bytes of the input behind the last byte that
\* holds a bit of the last block, whatever number of whole bytes and of
\* padding bits the bit buffer holds; for a well-formed stream that is
\* all there these are the 4 bytes behind the header and the blocks
TrailerPosition ==
    [][(/\ pc = "trailer"
        /\ bit_stream.byte_stream_size - bit_stream.byte_stream_offset >= 4)
          => \A data \in {compressed_data} :
             LET position == (NextBit + 7) \div 8
             IN  /\ last_block_flag # 0
                 /\ stored_checksum'
                      = U32(256 * data[position + 1] + data[position + 2],
                            256 * data[position + 3] + data[position + 4])
                 /\ bit_stream'.byte_stream_offset = position
                 /\ (/\ BlocksValid(stream.blocks, 0)
                     /\ stream.keep = KeepAll
                     /\ ~HasDictionary(stream))
                       => position = 2 + Len(EncodeBlocks(stream.blocks, <<>>, <<>>))]_vars

\* The checksum behind a fixed Huffman block that ends 6 bits before the
\* end of its last byte was compared, with bytes after the checksum that
\* the bit buffer had taken in
PrefetchedTrailerCompared ==
    /\ pc = "done"
    /\ result = 1
    /\ stream.blocks = <<HuffmanBlock(1, 1, <<Literal(97)>>)>>
    /\ stream.pad = MaxPad
    /\ stored_checksum = ReferenceAdler(<<97>>)
    /\ bit_stream.byte_stream_offset = 5
    /\ bit_stream.bit_buffer_size = 6


\* C26: between two operations on the bit stream the bit buffer holds at
\* most 32 bits, they are the bits of the input from the position of the
\* bit stream on, and the bits above them are 0; the 32 bits of LEN and
\* NLEN are read from a byte boundary with whole bytes in the bit buffer,
\* and the bit stream goes on right behind them
BitBufferInvariant ==
    [][\A data \in {compressed_data} :
       /\ pc' \in {"loop", "stored", "dynamic", "decode", "trailer"}
            => /\ bit_stream'.bit_buffer_size \in 0..32
               /\ NextBit' >= 16
               /\ \A i \in 0..31 :
                     (IF i < 16 THEN bit_stream'.bit_buffer.lo \div Pow2(i)
                      ELSE bit_stream'.bit_buffer.hi \div Pow2(i - 16)) % 2
                       = IF i < bit_stream'.bit_buffer_size
                         THEN StreamBit(data, NextBit' + i)
                         ELSE 0
       /\ StoredHeaderReadable
            => /\ NextBit + (bit_stream.bit_buffer_size % 8) = 8 * StoredStart
               /\ bit_stream.bit_buffer_size - (bit_stream.bit_buffer_size % 8)
                    \in {0, 8, 16, 24}
               /\ NextBit' = 8 * (StoredStart + 4)
                             + (IF pc' = "done" THEN 0 ELSE 8 * StoredLen)
               /\ bit_stream'.bit_buffer_size = 0]_vars

\* A stored block starts behind a Huffman block with 14 bits in the bit
\* buffer, 6 of them before the next byte boundary
StoredBlockBehindPrefetch ==
    /\ pc = "stored"
    /\ bit_stream.bit_buffer_size = 14
    /\ StoredHeaderReadable


\* C27: a call that returns 1 has set *uncompressed_data_size to the
\* cursor, which is the number of bytes it wrote; a call that returns -1
\* has left it at the capacity the caller gave, whatever it wrote before
ResultReported ==
    /\ pc = "done" => result \in {1, -1}
    /\ pc # "done" => (result = 0 /\ uncompressed_data_size = stream.capacity)
    /\ (pc = "done" /\ result = 1)
         => /\ uncompressed_data_size = uncompressed_data_offset
            /\ uncompressed_data_size = Len(uncompressed_data)
            /\ error = ""
    /\ (pc = "done" /\ result = -1)
         => /\ uncompressed_data_size = stream.capacity
            /\ error # ""

\* The call failed on the checksum after it had written fewer bytes than
\* the capacity, which was left as it was
PartialCountNotReported ==
    /\ pc = "done"
    /\ result = -1
    /\ error = "INPUT_ERROR_CHECKSUM_MISMATCH"
    /\ Len(uncompressed_data) > 0
    /\ Len(uncompressed_data) < stream.capacity
    /\ uncompressed_data_size = stream.capacity


\* C28: with h the length of the header, 6 with a dictionary identifier
\* and 2 without, the bit stream starts at byte h of the N bytes of the
\* input with the limit N - h: the bytes taken into the bit buffer, the
\* bytes of a stored block and the 4 bytes of the checksum all lie at h
\* or behind it and before N - h
InputBounds ==
    [][\A data \in {compressed_data} :
       LET h == IF HasDictionary(stream) THEN 6 ELSE 2
           N == Len(data)
       IN  /\ (pc = "header" /\ pc' = "loop")
                => bit_stream' = [byte_stream_size   |-> N - h,
                                  byte_stream_offset |-> h,
                                  bit_buffer         |-> U32(0, 0),
                                  bit_buffer_size    |-> 0]
           /\ pc # "header"
                => /\ bit_stream'.byte_stream_size = N - h
                   /\ bit_stream'.byte_stream_offset >= h
                   /\ bit_stream'.byte_stream_offset <= N - h
                   /\ NextBit' >= 8 * h
                   /\ NextBit' >= NextBit
           /\ (/\ pc = "trailer"
               /\ bit_stream.byte_stream_size - bit_stream.byte_stream_offset >= 4)
                => /\ bit_stream'.byte_stream_offset + 4 <= N - h
                   /\ stored_checksum'
                        = Uint32BigEndian(data, bit_stream'.byte_stream_offset)]_vars

\* Behind a header with a dictionary identifier the bit stream came to its
\* limit 6 bytes before the end of the input, and the call failed there
LimitBeforeEndReached ==
    /\ pc = "done"
    /\ result = -1
    /\ HasDictionary(stream)
    /\ bit_stream.byte_stream_size = Len(compressed_data) - 6
    /\ bit_stream.byte_stream_offset = bit_stream.byte_stream_size
    /\ Len(compressed_data) > 12



\* C29: a dynamic header makes the call fail when the HCLEN + 4 code sizes
\* of the code length symbols are all 0, and when the HDIST + 1 code sizes
\* of the distances are all 0: a block of literals alone that declares no
\* distance code is refused, and nothing is written
EmptyTablesRejected ==
    [][(pc = "dynamic" /\ NextBit + 14 <= 8 * bit_stream.byte_stream_size)
          => \A data \in {compressed_data} :
                LET hlit  == BitsNumber(data, NextBit, 5)
                    hdist == BitsNumber(data, NextBit + 5, 5)
                    hclen == BitsNumber(data, NextBit + 10, 4)
                    after == NextBit + 14 + 3 * (hclen + 4)
                    h     == stream.blocks[1].header
                    total == hlit + 257 + hdist + 1
                IN  /\ (/\ hlit + 257 <= 286
                        /\ hdist + 1 <= 30
                        /\ after <= 8 * bit_stream.byte_stream_size
                        /\ \A i \in 0..(hclen + 3) :
                              BitsNumber(data, NextBit + 14 + 3 * i, 3) = 0)
                         => /\ result' = -1
                            /\ pc' = "done"
                            /\ error' = "RUNTIME_ERROR_INITIALIZE_FAILED"
                            /\ NextBit' = after
                            /\ uncompressed_data' = uncompressed_data
                            /\ uncompressed_data_offset' = uncompressed_data_offset
                    /\ (/\ hlit + 257 <= 286
                        /\ hdist + 1 <= 30
                        /\ DynamicHeaderNext
                        /\ NextBit + Len(HeaderBits(h)) <= 8 * bit_stream.byte_stream_size
                        /\ HeaderLengths.ok
                        /\ Len(HeaderLengths.lengths) = total
                        /\ \A symbol \in (hlit + 258)..total :
                              HeaderLengths.lengths[symbol] = 0)
                         => /\ result' = -1
                            /\ pc' = "done"
                            /\ uncompressed_data' = uncompressed_data
                            /\ uncompressed_data_offset' = uncompressed_data_offset
                            /\ (/\ HeaderLengths.lengths[256 + 1] # 0
                                /\ Constructible(SubSeq(HeaderLengths.lengths, 1,
                                                        hlit + 257)))
                                 => /\ error' = "RUNTIME_ERROR_INITIALIZE_FAILED"
                                    /\ NextBit' = NextBit + Len(HeaderBits(h))]_vars

\* A header with codes for the end-of-block symbol and three lengths and
\* with one distance code size, which is 0, was refused
LiteralsOnlyRefused ==
    /\ pc = "done"
    /\ result = -1
    /\ error = "RUNTIME_ERROR_INITIALIZE_FAILED"
    /\ Len(stream.blocks) = 1
    /\ stream.blocks[1].btype = 2
    /\ stream.blocks[1].header.hlit = 29
    /\ stream.blocks[1].header.hdist = 0
    /\ stream.blocks[1].header.hclen = 15
    /\ HeaderLengths.ok
    /\ HeaderLengths.rest = <<>>
    /\ HeaderLengths.lengths[256 + 1] = 8
    /\ HeaderLengths.lengths[259 + 1] = 8
    /\ HeaderLengths.lengths[286 + 1] = 0
    /\ NextBit = 19 + Len(HeaderBits(stream.blocks[1].header))
    /\ uncompressed_data_offset = 0


\* C30: during deflate_decompress the tables of the lengths are indexed
\* with a symbol of 257 .. 285 alone and the tables of the distances with
\* a symbol of 0 .. 29; the code sizes of a dynamic header are stored at
\* indexes below 316; a Huffman table holds at most 288 symbols, the
\* table of the distances at most 30, each of them below the number of
\* symbols of its table
TableIndexBounds ==
    [][\A data \in {compressed_data} :
          LET Symbols(t) ==
                  LET RECURSIVE Counted(_)
                      Counted(i) == IF i < 0 THEN 0
                                    ELSE t.code_counts_array[i] + Counted(i - 1)
                  IN  Counted(15)
              literals  == IF block_type = 1 THEN FixedHuffmanTables.literals_table
                           ELSE dynamic_huffman_literals_table
              distances == IF block_type = 1 THEN FixedHuffmanTables.distances_table
                           ELSE dynamic_huffman_distances_table
              lit  == deflate_bit_stream_get_huffman_encoded_value(data, bit_stream,
                                                                   literals)
              length_extra ==
                  deflate_bit_stream_get_value(
                      data, lit.bs,
                      literal_codes_number_of_extra_bits[lit.value - 257 + 1])
              dist == deflate_bit_stream_get_huffman_encoded_value(
                          data, length_extra.bs, distances)
              header == deflate_bit_stream_get_value(data, bit_stream, 14)
              number_of_literal_codes  == (ToInt(header.value) % 32) + 257
              number_of_distance_codes == ((ToInt(header.value) \div 32) % 32) + 1
              total == number_of_literal_codes + number_of_distance_codes
              read  == ReadCodeSizes(data, header.bs, 0,
                                     (ToInt(header.value) \div 1024) + 4,
                                     [i \in 1..19 |-> 0])
              codes == deflate_huffman_table_construct(read.sizes, 0)
              sizes == DecodeCodeSizes(data, codes.table,
                                       [ok |-> TRUE, error |-> "", bs |-> read.bs,
                                        sizes |-> <<>>],
                                       total, total)
          IN  /\ pc = "decode"
                   => /\ Symbols(literals) <= CodesArraySize
                      /\ Symbols(distances) <= Len(distance_codes_base)
                      /\ Len(literal_codes_base) = 29
                      /\ Len(literal_codes_number_of_extra_bits) = 29
                      /\ Len(distance_codes_base) = 30
                      /\ Len(distance_codes_number_of_extra_bits) = 30
                      /\ \A i \in DOMAIN literals.codes_array :
                            literals.codes_array[i] \in 0..(Symbols(literals) - 1)
                      /\ \A i \in DOMAIN distances.codes_array :
                            distances.codes_array[i] \in 0..(Symbols(distances) - 1)
                      /\ lit.ok
                           => /\ lit.value \in 0..(Symbols(literals) - 1)
                              /\ lit.value > 285
                                   => /\ pc' = "done"
                                      /\ result' = -1
                                      /\ error' = "RUNTIME_ERROR_GET_FAILED"
                                      /\ bit_stream' = lit.bs
                                      /\ compression_size' = 0
                                      /\ compression_offset' = 0
                              /\ lit.value \in 257..285
                                   => /\ lit.value - 257 \in 0..28
                                      /\ (length_extra.ok /\ dist.ok)
                                           => /\ dist.value \in 0..29
                                              /\ compression_size'
                                                   = literal_codes_base[lit.value - 257 + 1]
                                                     + ToInt(length_extra.value)
                                              /\ compression_offset'
                                                   >= distance_codes_base[dist.value + 1]
                      /\ compression_size' # 0
                           => (lit.ok /\ lit.value \in 257..285 /\ length_extra.ok)
                      /\ compression_offset' # 0
                           => (dist.ok /\ dist.value \in 0..29)
              /\ (/\ pc = "dynamic"
                  /\ header.ok
                  /\ number_of_literal_codes <= 286
                  /\ number_of_distance_codes <= 30
                  /\ read.ok)
                   => /\ total <= 316
                      /\ Len(read.sizes) = 19
                      /\ codes.result = 1
                           => /\ Symbols(codes.table) = 19
                              /\ Len(sizes.sizes) <= total
                              /\ \A i \in 1..Len(sizes.sizes) : sizes.sizes[i] \in 0..15
                              /\ pc' = "decode"
                                   => /\ Len(sizes.sizes) = total
                                      /\ Symbols(dynamic_huffman_literals_table')
                                           = number_of_literal_codes
                                      /\ Symbols(dynamic_huffman_distances_table')
                                           = number_of_distance_codes]_vars

\* The last entries of the tables of the lengths and of the distances were
\* read: the length symbol 285 and the distance symbol 29 with all of its
\* 13 extra bits, in a block of fixed Huffman codes
LastTableEntriesRead ==
    /\ pc = "done"
    /\ block_type = 1
    /\ Len(stream.blocks) = 1
    /\ stream.blocks[1].tokens = <<Literal(97), Match(258, 32768)>>
    /\ stream.capacity = 300
    /\ compression_size = literal_codes_base[285 - 257 + 1]
    /\ compression_offset = distance_codes_base[29 + 1] + 8191
    /\ Len(uncompressed_data) = 1

=============================================================================
